---- MODULE Spec2Model ----
(***************************************************************************)
(* Deployment Buddy: dependency closure (metadata-parser.ts) and batch     *)
(* planner (dependency-graph.ts).                                          *)
(*                                                                         *)
(* Names are sequences of one-character strings so that toLowerCase,       *)
(* String.includes and String.split are computed, not assumed.  A JS Set   *)
(* or Map is a sequence without duplicates (insertion order).              *)
(***************************************************************************)
EXTENDS Integers, Sequences, FiniteSets, TLC, Bags

\* The workspace differs from the reference scenario by at most MaxEdits edits.
MaxEdits == 2
\* A selection holds at most MaxSel tokens.
MaxSel == 2

(***************************************************************************)
(* Strings                                                                 *)
(***************************************************************************)
toLowerCaseChar(c) ==
  CASE c = "B" -> "b" [] c = "C" -> "c" [] c = "F" -> "f" [] c = "G" -> "g"
    [] c = "P" -> "p" [] c = "W" -> "w" [] c = "X" -> "x" [] OTHER -> c

toLowerCase(s) == [i \in 1..Len(s) |-> toLowerCaseChar(s[i])]

\* s.includes(t)
includes(s, t) == \E i \in 0..(Len(s) - Len(t)) : SubSeq(s, i + 1, i + Len(t)) = t

\* s.split(sep) for a one-character separator: the fields between separators.
RECURSIVE split(_, _)
split(s, sep) ==
  IF \A i \in 1..Len(s) : s[i] # sep THEN <<s>>
  ELSE LET i == CHOOSE k \in 1..Len(s) : s[k] = sep /\ \A j \in 1..(k - 1) : s[j] # sep
       IN <<SubSeq(s, 1, i - 1)>> \o split(SubSeq(s, i + 1, Len(s)), sep)

Range(seq) == {seq[i] : i \in 1..Len(seq)}

Reverse(seq) == [i \in 1..Len(seq) |-> seq[Len(seq) + 1 - i]]

\* Set.add / Map.set of a new key: keeps the insertion order, no duplicates.
SetAdd(seq, x) == IF x \in Range(seq) THEN seq ELSE Append(seq, x)

RECURSIVE SetAddAll(_, _)
SetAddAll(seq, xs) == IF xs = <<>> THEN seq ELSE SetAddAll(SetAdd(seq, Head(xs)), Tail(xs))

SelectSeqBy(seq, S) == SelectSeq(seq, LAMBDA x : x \in S)

(***************************************************************************)
(* Types                                                                   *)
(***************************************************************************)
DEPLOYMENT_LAYER_ORDER ==
  <<"ApexClass", "Flow", "GenAiFunction", "GenAiPlugin", "GenAiPlannerBundle",
    "Bot", "BotVersion">>

MetadataType == Range(DEPLOYMENT_LAYER_ORDER)

GenAiAssetType == {"GenAiFunction", "GenAiPlugin", "GenAiPlannerBundle"}

Key(type, name) == [type |-> type, name |-> name]

Reference(sourceType, sourceName, targetType, targetName) ==
  [sourceType |-> sourceType, sourceName |-> sourceName,
   targetType |-> targetType, targetName |-> targetName]

(***************************************************************************)
(* Names of the reference scenario                                         *)
(***************************************************************************)
C1 == <<"C", "1">>
C2 == <<"C", "2">>
W1 == <<"W", "1">>
F1 == <<"F", "1">>
F2 == <<"F", "2">>
f1 == <<"f", "1">>
G1 == <<"G", "1">>
P1 == <<"P", "1">>
B1 == <<"B", "1">>
v1 == <<"v", "1">>
B1v1 == B1 \o <<".">> \o v1
X1 == <<"X", "1">>

(***************************************************************************)
(* The local workspace (force-app/main/default)                            *)
(*                                                                         *)
(* readdir[folder] : the entries fs.readdir returns for classes/, flows/,  *)
(*                   genAiFunctions/, genAiPlugins/, genAiPlannerBundles/  *)
(*                   and bots/, in the order the file system reports them; *)
(* botDir[bot]     : the files of bots/<bot>/, each a Key: the bot file    *)
(*                   <bot>.bot-meta.xml is Key("Bot", bot), a version file *)
(*                   <v>.botVersion-meta.xml is Key("BotVersion", v);      *)
(* defs[file]      : the content of a definition file, for every file that *)
(*                   exists: links, the recognised fields in document      *)
(*                   order (target type and name), and labels, the other   *)
(*                   names that occur in its text.  A file is Key(type,    *)
(*                   name); a version file is Key("BotVersion", bot.v).    *)
(* broken[file]    : for a file that exists and cannot be used, why not:   *)
(*                   "unreadable" (fs.readFile throws) or "unparsable"     *)
(*                   (the text is read and xmlParser.parse throws).        *)
(***************************************************************************)
VARIABLES readdir, botDir, defs, broken

\* The last tool call: its arguments (selection) and what it computed
\* (build: the plan and the values of buildDeployPlan's local variables).
VARIABLES pc, selection, build

\* A call of validate_plan, deploy_plan or validatePlan: the handler that runs
\* (tool), its position (opc), its argument (planArg, checkOnly), the index of
\* the batch the loop is at (cursor) and its local variables.
VARIABLES tool, opc, planArg, checkOnly, cursor, cumulativeComponents, batchResults,
          failedAtBatch, timedOut, result, retryCount, packageXmlResult,
          retrievedMetadata, allMissingMetadata

\* Around the handler: the time since the call started (elapsed, ms), the
\* manifest directory (manifestDir: the content of package_n.xml by n), the
\* bag of the requests the command executor has been sent and of the manifest
\* writes (calls), and what the call returned (response).
VARIABLES elapsed, manifestDir, calls, response

\* The directory .deployment-buddy-temp of the project (tempDir: whether it
\* exists and the content of its files by name) and the calls of
\* SalesforceCli.validateComponents and deployComponents that are in flight
\* on the server (inflight: for each, the method, its components argument,
\* the statement it is at and the manifest the command executor read).
VARIABLES tempDir, inflight

orchVars ==
  <<tool, opc, planArg, checkOnly, cursor, cumulativeComponents, batchResults,
    failedAtBatch, timedOut, result, retryCount, packageXmlResult, retrievedMetadata,
    allMissingMetadata, elapsed, manifestDir, calls, response>>

vars == <<readdir, botDir, defs, broken, pc, selection, build, orchVars, tempDir, inflight>>

\* JavaScript's undefined is the empty sequence, a value v that is set <<v>>.
undefined == <<>>

NoResult == [success |-> FALSE, errorDetails |-> <<>>, missingMetadata |-> <<>>]

EmptyDir == [n \in {} |-> <<>>]

\* Every definition file can be read and parsed.
NoneBroken == [file \in {} |-> "unreadable"]

\* The number of calls of validateComponents and deployComponents in flight.
MaxInFlight == 2

NoTempDir == [exists |-> FALSE, files |-> [f \in {} |-> <<>>]]

NotInvoked == [op |-> "none", components |-> <<>>, at |-> "idle", executed |-> undefined]

\* No temporary directory, nothing in flight.
NoInvocation ==
  /\ tempDir = NoTempDir
  /\ inflight = [i \in 1..MaxInFlight |-> NotInvoked]

\* No plan tool has been called.
NoCall ==
  /\ tool = "none"
  /\ opc = "idle"
  /\ planArg = undefined
  /\ checkOnly = FALSE
  /\ cursor = 0
  /\ cumulativeComponents = <<>>
  /\ batchResults = <<>>
  /\ failedAtBatch = undefined
  /\ timedOut = FALSE
  /\ result = NoResult
  /\ retryCount = 0
  /\ packageXmlResult = [success |-> FALSE]
  /\ retrievedMetadata = <<>>
  /\ allMissingMetadata = <<>>
  /\ elapsed = 0
  /\ manifestDir = EmptyDir
  /\ calls = EmptyBag
  /\ response = undefined

depResults == build.depResults
expandedItems == build.expandedItems
allReferences == build.allReferences
itemsByType == build.itemsByType
sortedByType == build.sortedByType
plan == build.plan

Folders == {"ApexClass", "Flow", "GenAiFunction", "GenAiPlugin", "GenAiPlannerBundle", "Bot"}

NoFile == Key("none", <<>>)

(***************************************************************************)
(* Workspaces: the reference scenario of spec.md section 8 (SupportBot's   *)
(* version -> planner P1 -> plugin G1 -> function F1 -> class C1 and flow  *)
(* W1, and an unrelated function F2) changed by a set of edits.            *)
(***************************************************************************)
Edit(op, src, tgt) == [op |-> op, src |-> src, tgt |-> tgt]

\* Every asset a workspace can hold, in ascending listing order.
AssetUniverse ==
  << Key("ApexClass", C1), Key("ApexClass", C2), Key("Flow", W1),
     Key("GenAiFunction", F1), Key("GenAiFunction", F2), Key("GenAiPlugin", G1),
     Key("GenAiPlannerBundle", P1), Key("Bot", B1), Key("BotVersion", B1v1) >>

ScenarioAssets == Range(AssetUniverse) \ {Key("ApexClass", C2)}

\* Every link a definition file can hold, in document order; the base links
\* are those of the reference scenario.
Link(src, tgt, base) == [src |-> src, tgt |-> tgt, base |-> base]

LinkUniverse ==
  << Link(Key("BotVersion", B1v1), Key("GenAiPlannerBundle", P1), TRUE),
     Link(Key("Bot", B1), Key("BotVersion", v1), FALSE),
     Link(Key("GenAiPlannerBundle", P1), Key("GenAiPlugin", G1), TRUE),
     Link(Key("GenAiPlannerBundle", P1), Key("GenAiFunction", F1), FALSE),
     Link(Key("GenAiPlugin", G1), Key("GenAiFunction", F1), TRUE),
     Link(Key("GenAiPlugin", G1), Key("GenAiFunction", f1), FALSE),
     Link(Key("GenAiFunction", F1), Key("ApexClass", C1), TRUE),
     Link(Key("GenAiFunction", F1), Key("Flow", W1), TRUE),
     Link(Key("GenAiFunction", F1), Key("ApexClass", C2), FALSE),
     Link(Key("GenAiFunction", F1), Key("GenAiFunction", F2), FALSE),
     Link(Key("GenAiFunction", F1), Key("GenAiPlugin", G1), FALSE),
     Link(Key("GenAiFunction", F2), Key("GenAiFunction", F1), FALSE),
     Link(Key("Flow", W1), Key("ApexClass", C2), FALSE) >>

\* Free text (a label, a description) of a file that can name another asset.
LabelUniverse == {Link(Key("GenAiFunction", F2), Key("GenAiFunction", F1), FALSE)}

NoKey == Key("none", <<>>)

\* The edits: an asset of the scenario is deleted, a further asset is created,
\* a further link or mention is written, the file system lists in reverse.
Deletable == ScenarioAssets \ {Key("GenAiFunction", F2), Key("GenAiPlannerBundle", P1)}

Edits ==
  {Edit("delete", k, k) : k \in Deletable}
    \cup {Edit("create", k, k) : k \in Range(AssetUniverse) \ ScenarioAssets}
    \cup {Edit("link", l.src, l.tgt) : l \in {x \in Range(LinkUniverse) : ~x.base}}
    \cup {Edit("mention", l.src, l.tgt) : l \in LabelUniverse}
    \cup {Edit("reverse", NoKey, NoKey)}

RECURSIVE EditSetsUpTo(_)
EditSetsUpTo(n) ==
  IF n = 0 THEN {{}}
  ELSE LET smaller == EditSetsUpTo(n - 1)
       IN  smaller \cup {D \cup {e} : D \in smaller, e \in Edits}

EditSets == EditSetsUpTo(MaxEdits)

BotOf(k) == split(k.name, ".")[1]
VersionOf(k) == split(k.name, ".")[2]

\* A bot's directory goes with the bot; a version file needs the directory.
Present(D, k) ==
  /\ IF k \in ScenarioAssets THEN Edit("delete", k, k) \notin D
                             ELSE Edit("create", k, k) \in D
  /\ k.type = "BotVersion" => Edit("delete", Key("Bot", BotOf(k)), Key("Bot", BotOf(k))) \notin D

Ordered(D, seq) == IF Edit("reverse", NoKey, NoKey) \in D THEN Reverse(seq) ELSE seq

PresentAssets(D) == SelectSeq(AssetUniverse, LAMBDA k : Present(D, k))

Listing(D, folder) ==
  LET ks == Ordered(D, SelectSeq(PresentAssets(D), LAMBDA k : k.type = folder))
  IN  [i \in 1..Len(ks) |-> ks[i].name]

BotFiles(D, bot) ==
  LET vs == SelectSeq(PresentAssets(D),
                      LAMBDA k : k.type = "BotVersion" /\ BotOf(k) = bot)
  IN  Ordered(D, <<Key("Bot", bot)>> \o [i \in 1..Len(vs) |-> Key("BotVersion", VersionOf(vs[i]))])

LinkEnabled(D, l) ==
  l.base \/ Edit("link", l.src, l.tgt) \in D

Content(D, k) ==
  LET ls == SelectSeq(LinkUniverse, LAMBDA l : l.src = k /\ LinkEnabled(D, l))
  IN  [links  |-> [i \in 1..Len(ls) |-> ls[i].tgt],
       labels |-> {l.tgt.name : l \in {x \in LabelUniverse :
                                         x.src = k /\ Edit("mention", x.src, x.tgt) \in D}}]

Workspace(D) ==
  [readdir |-> [folder \in Folders |-> Listing(D, folder)],
   botDir  |-> [bot \in Range(Listing(D, "Bot")) |-> BotFiles(D, bot)],
   defs    |-> [k \in Range(PresentAssets(D)) |-> Content(D, k)]]

(***************************************************************************)
(* MetadataParser: the local inventory                                     *)
(***************************************************************************)
listApexClasses == readdir["ApexClass"]

listFlows == readdir["Flow"]

\* Every directory of the three GenAI folders is listed, with or without a
\* definition file in it.
listGenAiAssets ==
  LET of(type) == [i \in 1..Len(readdir[type]) |-> Key(type, readdir[type][i])]
  IN  of("GenAiFunction") \o of("GenAiPlugin") \o of("GenAiPlannerBundle")

listBots == readdir["Bot"]

listBotVersions(botName) ==
  IF botName \in DOMAIN botDir
  THEN SelectSeq(botDir[botName], LAMBDA f : f.type = "BotVersion")
  ELSE <<>>

(***************************************************************************)
(* MetadataParser: locating and reading a definition                       *)
(***************************************************************************)
\* The file of bots/<bot>/: its key in defs.
BotFileKey(botName, file) ==
  IF file.type = "BotVersion" THEN Key("BotVersion", botName \o <<".">> \o file.name)
  ELSE Key("Bot", file.name)

getMetadataFilePath(type, name) ==
  CASE type = "Bot" ->
         IF name \in DOMAIN botDir /\ Key("Bot", name) \in Range(botDir[name])
            /\ Key("Bot", name) \in DOMAIN defs
         THEN Key("Bot", name) ELSE NoFile
    [] type = "BotVersion" ->
         LET parts == split(name, ".")
         IN  IF Len(parts) >= 2 /\ parts[1] \in DOMAIN botDir
                /\ Key("BotVersion", parts[2]) \in Range(botDir[parts[1]])
             THEN BotFileKey(parts[1], Key("BotVersion", parts[2])) ELSE NoFile
    [] type \in {"ApexClass", "Flow"} \cup GenAiAssetType ->
         IF name \in Range(readdir[type]) /\ Key(type, name) \in DOMAIN defs
         THEN Key(type, name) ELSE NoFile
    [] OTHER -> NoFile

\* The first directory whose name matches case-insensitively or by
\* containment either way, and that holds a definition file.
findGenAiFilePath(type, name) ==
  IF type \notin GenAiAssetType THEN NoFile
  ELSE LET entries == readdir[type]
           match(e) == /\ \/ toLowerCase(e) = toLowerCase(name)
                          \/ includes(toLowerCase(e), toLowerCase(name))
                          \/ includes(toLowerCase(name), toLowerCase(e))
                       /\ Key(type, e) \in DOMAIN defs
           hits == SelectSeq(entries, match)
       IN  IF hits = <<>> THEN NoFile ELSE Key(type, hits[1])

(***************************************************************************)
(* MetadataParser: the reference extractor                                 *)
(***************************************************************************)
\* The target types the structured walk recognises under each root element.
StructuredTargets(rootType) ==
  CASE rootType = "GenAiFunction" -> {"Flow", "ApexClass"}
    [] rootType = "Flow" -> {"ApexClass", "Flow"}
    [] rootType = "GenAiPlannerBundle" ->
         {"GenAiPlugin", "GenAiFunction", "Flow", "ApexClass"}
    [] rootType = "Bot" -> {"BotVersion"}
    [] rootType = "BotVersion" -> {"GenAiPlannerBundle"}
    [] rootType = "GenAiPlugin" -> {"GenAiFunction"}
    [] OTHER -> {}

extractFromParsedXml(file, sourceType, sourceName) ==
  LET ls == SelectSeq(defs[file].links,
                      LAMBDA l : l.type \in StructuredTargets(file.type))
  IN  [i \in 1..Len(ls) |-> Reference(sourceType, sourceName, ls[i].type, ls[i].name)]

\* The patterns run one after the other over the whole text: invocation and
\* action targets (Flow or ApexClass), then planner, plugin and function names.
extractReferencesWithRegex(file, sourceType, sourceName) ==
  LET of(types) == SelectSeq(defs[file].links, LAMBDA l : l.type \in types)
      ls == of({"Flow", "ApexClass"}) \o of({"GenAiPlannerBundle"})
              \o of({"GenAiPlugin"}) \o of({"GenAiFunction"})
  IN  [i \in 1..Len(ls) |-> Reference(sourceType, sourceName, ls[i].type, ls[i].name)]

deepScanReferences(file, sourceType, sourceName) ==
  extractFromParsedXml(file, sourceType, sourceName)
    \o extractReferencesWithRegex(file, sourceType, sourceName)

RECURSIVE deduplicateReferences(_)
deduplicateReferences(refs) ==
  IF refs = <<>> THEN <<>>
  ELSE LET init == deduplicateReferences(SubSeq(refs, 1, Len(refs) - 1))
       IN  SetAdd(init, refs[Len(refs)])

\* content.includes(assetName): the text holds the names its fields and its
\* free text spell out.
contentIncludes(file, assetName) ==
  \E n \in {defs[file].links[i].name : i \in 1..Len(defs[file].links)}
             \cup defs[file].labels : includes(n, assetName)

\* fs.readFile throws; the text is read and xmlParser.parse throws.
unreadable(file) == file \in DOMAIN broken /\ broken[file] = "unreadable"

unparsable(file) == file \in DOMAIN broken /\ broken[file] = "unparsable"

(***************************************************************************)
(* MetadataParser.analyzeAllDependencies                                   *)
(*                                                                         *)
(* The closure under construction: the visited set, allDependencies and    *)
(* the five name sets of the code, and scanned, the log of the files       *)
(* handed to deepScanReferences (one entry per scan).                      *)
(***************************************************************************)
NewClosure ==
  [visited |-> {}, allDependencies |-> <<>>, apexClasses |-> <<>>, flows |-> <<>>,
   genAiFunctions |-> <<>>, genAiPlugins |-> <<>>, genAiPlannerBundles |-> <<>>,
   scanned |-> <<>>]

\* The name set a target type is collected in.
SetOf(type) ==
  CASE type = "ApexClass" -> "apexClasses"
    [] type = "Flow" -> "flows"
    [] type = "GenAiFunction" -> "genAiFunctions"
    [] type = "GenAiPlugin" -> "genAiPlugins"
    [] type = "GenAiPlannerBundle" -> "genAiPlannerBundles"

CollectedTypes == {"ApexClass", "Flow", "GenAiFunction", "GenAiPlugin", "GenAiPlannerBundle"}

\* The target types analyzeRecursively and analyzeBotAndVersions recurse into
\* (ApexClass is a leaf), and those findAndAnalyzeByName recurses into.
\* Variant: references to flows are collected but not followed.
RecursedTypes_FlowNotFollowed == {"GenAiFunction", "GenAiPlugin", "GenAiPlannerBundle"}

RecursedTypes == {"Flow", "GenAiFunction", "GenAiPlugin", "GenAiPlannerBundle"}

RecursedTypesByName == {"GenAiFunction", "GenAiPlugin", "GenAiPlannerBundle"}

collect(st, type, name) ==
  IF type \in CollectedTypes THEN [st EXCEPT ![SetOf(type)] = SetAdd(@, name)] ELSE st

logScan(st, file) == [st EXCEPT !.scanned = Append(@, file)]

RECURSIVE analyzeRecursively(_, _, _)
RECURSIVE processRefs(_, _, _)
RECURSIVE analyzeBotFiles(_, _, _)
RECURSIVE findAndAnalyzeByName(_, _, _, _)

\* Variant: a target whose definition throws ends the loop over the
\* references of the file that names it.
processRefs_AbortOnFailure(st, refs, recursed) ==
  IF refs = <<>> THEN st
  ELSE LET ref == Head(refs)
           s2 == collect([st EXCEPT !.allDependencies = Append(@, ref)],
                         ref.targetType, ref.targetName)
       IN  IF ref.targetType \notin recursed THEN processRefs(s2, Tail(refs), recursed)
           ELSE IF getMetadataFilePath(ref.targetType, ref.targetName) \in DOMAIN broken
           THEN [s2 EXCEPT !.visited = @ \cup {Key(ref.targetType, ref.targetName)}]
           ELSE processRefs(analyzeRecursively(s2, ref.targetType, ref.targetName),
                            Tail(refs), recursed)

\* The loop over the references of one scanned file: record the reference,
\* collect its target and recurse before going on to the next reference.
processRefs(st, refs, recursed) ==
  IF refs = <<>> THEN st
  ELSE LET ref == Head(refs)
           s1 == [st EXCEPT !.allDependencies = Append(@, ref)]
           s2 == collect(s1, ref.targetType, ref.targetName)
           s3 == IF ref.targetType \in recursed
                 THEN analyzeRecursively(s2, ref.targetType, ref.targetName)
                 ELSE s2
       IN  processRefs(s3, Tail(refs), recursed)

\* The files of bots/<bot>/ one after the other; a version file is scanned
\* under its version name.  A file that throws is skipped.
analyzeBotFiles(st, botName, files) ==
  IF files = <<>> THEN st
  ELSE LET file == Head(files)
           fk == BotFileKey(botName, file)
           s1 == IF fk \notin DOMAIN defs \/ unreadable(fk) THEN st
                 ELSE IF unparsable(fk) THEN logScan(st, fk)
                 ELSE processRefs(logScan(st, fk),
                                  deepScanReferences(fk, file.type, file.name),
                                  RecursedTypes)
       IN  analyzeBotFiles(s1, botName, Tail(files))

analyzeBotAndVersions(st, botName) ==
  IF botName \in DOMAIN botDir THEN analyzeBotFiles(st, botName, botDir[botName]) ELSE st

\* Every directory named like the asset (ignoring case) that holds a
\* definition file is scanned under the asset's name.  One try block holds
\* the whole search: a file that throws ends it.
findAndAnalyzeByName(st, type, name, entries) ==
  IF type \notin GenAiAssetType \/ entries = <<>> THEN st
  ELSE LET e == Head(entries)
           fk == Key(type, e)
           s1 == IF toLowerCase(e) = toLowerCase(name) /\ fk \in DOMAIN defs
                 THEN processRefs(logScan(st, fk), deepScanReferences(fk, type, name),
                                  RecursedTypesByName)
                 ELSE st
       IN  IF toLowerCase(e) = toLowerCase(name) /\ unreadable(fk) THEN st
           ELSE IF toLowerCase(e) = toLowerCase(name) /\ unparsable(fk) THEN logScan(st, fk)
           ELSE findAndAnalyzeByName(s1, type, name, Tail(entries))

analyzeRecursively(st, type, name) ==
  IF Key(type, name) \in st.visited THEN st
  ELSE LET s1 == [st EXCEPT !.visited = @ \cup {Key(type, name)}]
           exact == getMetadataFilePath(type, name)
           filePath == IF exact = NoFile /\ type \in GenAiAssetType
                       THEN findGenAiFilePath(type, name) ELSE exact
       IN  IF type = "Bot" THEN analyzeBotAndVersions(s1, name)
           ELSE IF filePath = NoFile
           THEN findAndAnalyzeByName(s1, type, name,
                                     IF type \in GenAiAssetType THEN readdir[type] ELSE <<>>)
           ELSE IF unreadable(filePath) THEN s1
           ELSE IF unparsable(filePath) THEN logScan(s1, filePath)
           ELSE processRefs(logScan(s1, filePath),
                            deepScanReferences(filePath, type, name), RecursedTypes)

\* Every GenAI definition whose text contains the asset's name is added to
\* the closure, with the classes and flows it names; one that cannot be read
\* is passed over, one that cannot be parsed is added without them.
RECURSIVE scanGenAiDirectoriesForReferences(_, _, _)
scanGenAiDirectoriesForReferences(st, assetName, entries) ==
  IF entries = <<>> THEN st
  ELSE LET e == Head(entries)
           s1 == IF e \notin DOMAIN defs \/ unreadable(e) \/ ~contentIncludes(e, assetName)
                 THEN st
                 ELSE IF unparsable(e) THEN collect(logScan(st, e), e.type, e.name)
                 ELSE LET refs == deepScanReferences(e, e.type, e.name)
                          leaf == SelectSeq(refs, LAMBDA r : r.targetType \in {"ApexClass", "Flow"})
                          s0 == collect(logScan(st, e), e.type, e.name)
                      IN  [s0 EXCEPT
                             !.apexClasses = SetAddAll(@,
                                [i \in 1..Len(SelectSeq(leaf, LAMBDA r : r.targetType = "ApexClass"))
                                   |-> SelectSeq(leaf, LAMBDA r : r.targetType = "ApexClass")[i].targetName]),
                             !.flows = SetAddAll(@,
                                [i \in 1..Len(SelectSeq(leaf, LAMBDA r : r.targetType = "Flow"))
                                   |-> SelectSeq(leaf, LAMBDA r : r.targetType = "Flow")[i].targetName])]
       IN  scanGenAiDirectoriesForReferences(s1, assetName, Tail(entries))

analyzeAllDependencies(assetType, assetName) ==
  LET s1 == analyzeRecursively(NewClosure, assetType, assetName)
      s2 == scanGenAiDirectoriesForReferences(s1, assetName, listGenAiAssets)
  IN  [seed |-> Key(assetType, assetName),
       dependencies |-> deduplicateReferences(s2.allDependencies),
       apexClasses |-> s2.apexClasses,
       flows |-> s2.flows,
       genAiFunctions |-> s2.genAiFunctions,
       genAiPlugins |-> s2.genAiPlugins,
       genAiPlannerBundles |-> s2.genAiPlannerBundles,
       visited |-> s1.visited,
       scanned |-> s2.scanned]

(***************************************************************************)
(* MetadataParser.analyzeReferences                                        *)
(*                                                                         *)
(* The structured walk of the asset's own category (a planner's plugins, a *)
(* plugin's functions, a function's class, a bot's planner), then the      *)
(* class patterns and the flow patterns over the text.  A definition that  *)
(* is missing, or that throws when read or parsed, leaves the list empty.  *)
(***************************************************************************)
analyzeReferences(assetType, assetName) ==
  LET filePath == getMetadataFilePath(assetType, assetName)
      walked == CASE assetType = "GenAiPlannerBundle" -> {"GenAiPlugin"}
                  [] assetType = "GenAiPlugin" -> {"GenAiFunction"}
                  [] assetType = "GenAiFunction" -> {"ApexClass"}
                  [] assetType \in {"Bot", "BotVersion"} -> {"GenAiPlannerBundle"}
                  [] OTHER -> {}
      of(types) == SelectSeq(defs[filePath].links, LAMBDA l : l.type \in types)
      found == of(walked) \o of({"ApexClass"}) \o of({"Flow"})
  IN  IF filePath = NoFile THEN <<>>
      ELSE IF unreadable(filePath) \/ unparsable(filePath) THEN <<>>
      ELSE deduplicateReferences(
             [i \in 1..Len(found) |->
                Reference(assetType, assetName, found[i].type, found[i].name)])

(***************************************************************************)
(* DependencyGraph                                                         *)
(*                                                                         *)
(* A selection token is the sequence of its colon-separated fields: a      *)
(* typed token "Type:Name" is <<type, name>>, a bare token is <<name>>.    *)
(* A DeployItem is its (type, name); fullName repeats the name and         *)
(* filePath is always empty.                                               *)
(***************************************************************************)
inferTypeFromName(name) ==
  LET lowered == toLowerCase(name)
      has(w) == includes(lowered, w)
  IN  IF has(<<"b", "o", "t">>) /\ has(<<"v", "e", "r", "s", "i", "o", "n">>) THEN "BotVersion"
      ELSE IF has(<<"b", "o", "t">>) THEN "Bot"
      ELSE IF has(<<"p", "l", "a", "n", "n", "e", "r">>) THEN "GenAiPlannerBundle"
      ELSE IF has(<<"p", "l", "u", "g", "i", "n">>) THEN "GenAiPlugin"
      ELSE IF has(<<"f", "u", "n", "c", "t", "i", "o", "n">>) \/ has(<<"f", "u", "n", "c">>)
           THEN "GenAiFunction"
      ELSE IF has(<<"f", "l", "o", "w">>) THEN "Flow"
      ELSE "ApexClass"

parseSelection(sel) ==
  [i \in 1..Len(sel) |->
     IF Len(sel[i]) > 1 THEN Key(sel[i][1], sel[i][2])
     ELSE Key(inferTypeFromName(sel[i][1]), sel[i][1])]

Warning(text, name) == [text |-> text, name |-> name]

\* One of the five loops of expandWithAllDependencies: st is the expanded
\* map (a sequence of items with distinct keys) and the warnings so far.
RECURSIVE expandType(_, _, _, _, _)
expandType(st, type, label, names, localSet) ==
  IF names = <<>> THEN st
  ELSE LET name == Head(names)
           key == Key(type, name)
           s1 == IF key \in Range(st.expanded) THEN st
                 ELSE IF name \in localSet
                 THEN [expanded |-> Append(st.expanded, key),
                       warnings |-> Append(st.warnings,
                                           Warning("Added " \o label \o " dependency", name))]
                 ELSE [expanded |-> st.expanded,
                       warnings |-> Append(st.warnings,
                          Warning("Skipped " \o label \o " dependency (not found locally)", name))]
       IN  expandType(s1, type, label, Tail(names), localSet)

expandWithAllDependencies(selected, apexClasses, flows, genAiFunctions, genAiPlugins, genAiPlannerBundles, warnings) ==
  LET localOf(type) == {a.name : a \in {x \in Range(listGenAiAssets) : x.type = type}}
      s0 == [expanded |-> SetAddAll(<<>>, selected), warnings |-> warnings]
      s1 == expandType(s0, "ApexClass", "Apex", apexClasses, Range(listApexClasses))
      s2 == expandType(s1, "Flow", "Flow", flows, Range(listFlows))
      s3 == expandType(s2, "GenAiFunction", "GenAiFunction", genAiFunctions,
                       localOf("GenAiFunction"))
      s4 == expandType(s3, "GenAiPlugin", "GenAiPlugin", genAiPlugins, localOf("GenAiPlugin"))
  IN  expandType(s4, "GenAiPlannerBundle", "GenAiPlannerBundle", genAiPlannerBundles,
                 localOf("GenAiPlannerBundle"))

\* The groups by type, each in the order of the expanded items.
groupByType(items) ==
  [type \in {it.type : it \in Range(items)} |-> SelectSeq(items, LAMBDA it : it.type = type)]

\* The edges and in-degrees of one type: an edge set ignores a repeated
\* reference, the in-degree counts it again.
RECURSIVE addEdges(_, _, _)
addEdges(g, type, references) ==
  IF references = <<>> THEN g
  ELSE LET ref == Head(references)
           g1 == IF /\ ref.sourceType = type /\ ref.targetType = type
                    /\ ref.sourceName \in DOMAIN g.graph
                    /\ ref.targetName \in DOMAIN g.graph
                 THEN [graph |-> [g.graph EXCEPT ![ref.sourceName] = SetAdd(@, ref.targetName)],
                       inDegree |-> [g.inDegree EXCEPT ![ref.targetName] = @ + 1]]
                 ELSE g
       IN  addEdges(g1, type, Tail(references))

\* One dequeued node: the in-degree of each neighbour drops by one, and a
\* neighbour that reaches zero joins the queue.
RECURSIVE relax(_, _)
relax(k, neighbours) ==
  IF neighbours = <<>> THEN k
  ELSE LET n == Head(neighbours)
           newDegree == (IF k.inDegree[n] = 0 THEN 1 ELSE k.inDegree[n]) - 1
           k1 == [k EXCEPT !.inDegree[n] = newDegree,
                           !.queue = IF newDegree = 0 THEN Append(@, n) ELSE @]
       IN  relax(k1, Tail(neighbours))

RECURSIVE kahn(_, _)
kahn(k, graph) ==
  IF k.queue = <<>> THEN k.sortedNames
  ELSE LET current == Head(k.queue)
           k1 == [k EXCEPT !.queue = Tail(@), !.sortedNames = Append(@, current)]
       IN  kahn(relax(k1, graph[current]), graph)

\* Variant: the sort without the fallback to the original order.
sortOneType_NoFallback(type, items, references) ==
  LET names == [i \in 1..Len(items) |-> items[i].name]
      g == addEdges([graph |-> [n \in Range(names) |-> <<>>],
                     inDegree |-> [n \in Range(names) |-> 0]], type, references)
      queue == SelectSeq(names, LAMBDA n : g.inDegree[n] = 0)
      sortedNames == kahn([queue |-> queue, sortedNames |-> <<>>, inDegree |-> g.inDegree],
                          g.graph)
  IN  [i \in 1..Len(sortedNames) |-> Key(type, sortedNames[i])]

sortOneType(type, items, references) ==
  LET names == [i \in 1..Len(items) |-> items[i].name]
      g == addEdges([graph |-> [n \in Range(names) |-> <<>>],
                     inDegree |-> [n \in Range(names) |-> 0]], type, references)
      queue == SelectSeq(names, LAMBDA n : g.inDegree[n] = 0)
      sortedNames == kahn([queue |-> queue, sortedNames |-> <<>>, inDegree |-> g.inDegree],
                          g.graph)
  IN  IF Len(sortedNames) < Len(items) THEN items
      ELSE [i \in 1..Len(sortedNames) |-> Key(type, sortedNames[i])]

sortWithinTypes(byType, references) ==
  [type \in DOMAIN byType |-> sortOneType(type, byType[type], references)]

Batch(batchNumber, type, items) ==
  [batchNumber |-> batchNumber, metadataType |-> type, items |-> items]

RECURSIVE createBatchesFrom(_, _, _)
createBatchesFrom(byType, layers, batches) ==
  IF layers = <<>> THEN batches
  ELSE LET type == Head(layers)
           b1 == IF type \in DOMAIN byType /\ Len(byType[type]) > 0
                 THEN Append(batches, Batch(Len(batches) + 1, type, byType[type]))
                 ELSE batches
       IN  createBatchesFrom(byType, Tail(layers), b1)

\* Variant: the layers are walked from the last to the first.
createBatches_Reversed(byType) ==
  createBatchesFrom(byType, Reverse(DEPLOYMENT_LAYER_ORDER), <<>>)

\* Variant: a batch is numbered by the position of its layer.
createBatches_Reserved(byType) ==
  LET batches == createBatchesFrom(byType, DEPLOYMENT_LAYER_ORDER, <<>>)
  IN  [i \in 1..Len(batches) |->
         [batches[i] EXCEPT !.batchNumber =
            CHOOSE n \in 1..Len(DEPLOYMENT_LAYER_ORDER) :
              DEPLOYMENT_LAYER_ORDER[n] = batches[i].metadataType]]

createBatches(byType) == createBatchesFrom(byType, DEPLOYMENT_LAYER_ORDER, <<>>)

\* The name sets of all the selected items, each in first-seen order.
allOf(results, field) ==
  LET RECURSIVE go(_, _)
      go(acc, i) == IF i > Len(results) THEN acc ELSE go(SetAddAll(acc, results[i][field]), i + 1)
  IN  go(<<>>, 1)

allReferencesOf(results) ==
  LET RECURSIVE go(_, _)
      go(acc, i) == IF i > Len(results) THEN acc ELSE go(acc \o results[i].dependencies, i + 1)
  IN  go(<<>>, 1)

\* buildDeployPlan, statement by statement: each step computes one local
\* variable from those before it and hands them on; the last one returns the
\* plan together with the values of the local variables.
returnPlan(results, ex, references, grouped, sorted, batches) ==
  [depResults |-> results, expandedItems |-> ex.expanded, allReferences |-> references,
   itemsByType |-> grouped, sortedByType |-> sorted,
   plan |-> [batches |-> batches, totalItems |-> Len(ex.expanded),
             estimatedSteps |-> Len(batches), warnings |-> ex.warnings]]

batchSorted(results, ex, references, grouped, sorted) ==
  returnPlan(results, ex, references, grouped, sorted, createBatches(sorted))

sortGrouped(results, ex, references, grouped) ==
  batchSorted(results, ex, references, grouped, sortWithinTypes(grouped, references))

groupExpanded(results, ex, references) ==
  sortGrouped(results, ex, references, groupByType(ex.expanded))

expandSelected(selected, results) ==
  groupExpanded(results,
                expandWithAllDependencies(selected, allOf(results, "apexClasses"),
                  allOf(results, "flows"), allOf(results, "genAiFunctions"),
                  allOf(results, "genAiPlugins"), allOf(results, "genAiPlannerBundles"), <<>>),
                allReferencesOf(results))

analyzeSelected(selected) ==
  IF Len(selected) = 0
  THEN [depResults |-> <<>>, expandedItems |-> <<>>, allReferences |-> <<>>,
        itemsByType |-> <<>>, sortedByType |-> <<>>,
        plan |-> [batches |-> <<>>, totalItems |-> 0, estimatedSteps |-> 0,
                  warnings |-> <<Warning("No valid items selected for deployment", <<>>)>>]]
  ELSE expandSelected(selected,
                      [i \in 1..Len(selected) |->
                         analyzeAllDependencies(selected[i].type, selected[i].name)])

buildDeployPlan(sel) == analyzeSelected(parseSelection(sel))

(***************************************************************************)
(* The tool calls                                                          *)
(***************************************************************************)
SelTokens ==
  { <<"Bot", B1>>, <<"BotVersion", B1v1>>, <<"GenAiPlugin", G1>>,
    <<"GenAiFunction", F1>>, <<"Custom", X1>> }

\* The webview keeps the selection in a Set: no token twice.
Selections ==
  {sel \in UNION {[1..n -> SelTokens] : n \in 0..MaxSel} :
     \A i, j \in 1..Len(sel) : sel[i] = sel[j] => i = j}

\* The assets analyze_all_dependencies is asked about.
AnalyzedAssets ==
  Range(AssetUniverse) \cup {Key("GenAiFunction", f1), Key("Custom", X1)}

NoPlan == [batches |-> <<>>, totalItems |-> 0, estimatedSteps |-> 0, warnings |-> <<>>]

NoBuild ==
  [depResults |-> <<>>, expandedItems |-> <<>>, allReferences |-> <<>>,
   itemsByType |-> <<>>, sortedByType |-> <<>>, plan |-> NoPlan]

Init ==
  /\ \E D \in EditSets :
       LET ws == Workspace(D)
       IN  /\ readdir = ws.readdir
           /\ botDir = ws.botDir
           /\ defs = ws.defs
  /\ broken = NoneBroken
  /\ NoInvocation
  /\ pc = "idle"
  /\ selection = <<>>
  /\ build = NoBuild
  /\ NoCall

\* Tool analyze_all_dependencies.
AnalyzeAllDependencies ==
  /\ pc = "idle"
  /\ \E a \in AnalyzedAssets :
       /\ build' = [NoBuild EXCEPT !.depResults = <<analyzeAllDependencies(a.type, a.name)>>]
       /\ selection' = <<<<a.type, a.name>>>>
  /\ pc' = "analyzed"
  /\ UNCHANGED <<readdir, botDir, defs, broken, orchVars, tempDir, inflight>>

\* Tool build_deploy_plan.
BuildDeployPlan ==
  /\ pc = "idle"
  /\ \E sel \in Selections :
       /\ selection' = sel
       /\ build' = buildDeployPlan(sel)
  /\ pc' = "planned"
  /\ UNCHANGED <<readdir, botDir, defs, broken, orchVars, tempDir, inflight>>

Next == AnalyzeAllDependencies \/ BuildDeployPlan

Spec == Init /\ [][Next]_vars

(***************************************************************************)
(* State functions the properties are written with                         *)
(***************************************************************************)
Batches == plan.batches

PlanItemsSeq ==
  LET RECURSIVE cat(_)
      cat(i) == IF i > Len(Batches) THEN <<>> ELSE Batches[i].items \o cat(i + 1)
  IN  cat(1)

PlanItems == Range(PlanItemsSeq)

Occurrences(seq, x) == Cardinality({i \in 1..Len(seq) : seq[i] = x})

\* The names the inventory lists for a category; a version is listed by its
\* name and by its full name bot.version.
LocalInventory(type) ==
  CASE type = "ApexClass" -> Range(listApexClasses)
    [] type = "Flow" -> Range(listFlows)
    [] type \in GenAiAssetType -> {a.name : a \in {x \in Range(listGenAiAssets) : x.type = type}}
    [] type = "Bot" -> Range(listBots)
    [] type = "BotVersion" ->
         UNION {UNION {{f.name, b \o <<".">> \o f.name} : f \in Range(listBotVersions(b))} :
                  b \in Range(listBots)}
    [] OTHER -> {}

IsLocal(k) == k.name \in LocalInventory(k.type)

\* The closure a call of analyzeAllDependencies returned.
ClosureOf(r) ==
  {Key("ApexClass", n) : n \in Range(r.apexClasses)}
    \cup {Key("Flow", n) : n \in Range(r.flows)}
    \cup {Key("GenAiFunction", n) : n \in Range(r.genAiFunctions)}
    \cup {Key("GenAiPlugin", n) : n \in Range(r.genAiPlugins)}
    \cup {Key("GenAiPlannerBundle", n) : n \in Range(r.genAiPlannerBundles)}

\* The references the definition of an asset holds: for a bot, those of its
\* bot file and of the version files beside it.  A file that cannot be read
\* or parsed holds none.
FilesOf(k) ==
  IF k.type = "Bot"
  THEN IF k.name \in DOMAIN botDir
       THEN {BotFileKey(k.name, f) : f \in Range(botDir[k.name])} \cap DOMAIN defs
       ELSE {}
  ELSE {getMetadataFilePath(k.type, k.name)} \cap DOMAIN defs

TargetsOf(k) == UNION {Range(defs[f].links) : f \in FilesOf(k) \ DOMAIN broken}

\* What is reachable from a set of assets by following references outward,
\* going on through the assets of the given types only.
RECURSIVE ReachableThrough(_, _, _)
ReachableThrough(found, frontier, through) ==
  LET next == UNION {TargetsOf(k) : k \in frontier} \ found
  IN  IF next = {} THEN found
      ELSE ReachableThrough(found \cup next, {k \in next : k.type \in through}, through)

ReachableFrom(seed) == ReachableThrough({}, {seed}, MetadataType)

Done == pc \in {"analyzed", "planned"}

SkippedText(type) ==
  "Skipped " \o (IF type = "ApexClass" THEN "Apex" ELSE type) \o " dependency (not found locally)"

ReferencedKeys == {Key(r.targetType, r.targetName) : r \in Range(allReferences)}

C2_SkippedExactlyOnce ==
  pc = "planned" =>
    \A k \in ReferencedKeys :
      ~IsLocal(k) =>
        /\ k \notin PlanItems
        /\ Occurrences(plan.warnings, Warning(SkippedText(k.type), k.name)) = 1

\* C3: the closure holds only assets reachable from the seed by following
\* references outward, and so does the plan.
C3_ClosureOnlyReachable ==
  Done => /\ \A i \in 1..Len(depResults) :
               ClosureOf(depResults[i]) \subseteq ReachableFrom(depResults[i].seed)
          /\ PlanItems \subseteq
               UNION {{depResults[i].seed} \cup ReachableFrom(depResults[i].seed) :
                        i \in 1..Len(depResults)}

\* C4: a call of analyzeAllDependencies returns (the action that holds it
\* completes), scans each definition at most once and lists each asset once.
NoDuplicates(seq) == \A i, j \in 1..Len(seq) : seq[i] = seq[j] => i = j

C4_ScannedAtMostOnce ==
  Done => \A i \in 1..Len(depResults) :
            /\ NoDuplicates(depResults[i].scanned)
            /\ NoDuplicates(depResults[i].apexClasses)
            /\ NoDuplicates(depResults[i].flows)
            /\ NoDuplicates(depResults[i].genAiFunctions)
            /\ NoDuplicates(depResults[i].genAiPlugins)
            /\ NoDuplicates(depResults[i].genAiPlannerBundles)

(***************************************************************************)
(* C5 .. C10                                                               *)
(***************************************************************************)
\* The categories a chain of the closure passes through.
ChainTypes == {"Flow", "GenAiFunction", "GenAiPlugin", "GenAiPlannerBundle"}

ChainReach(seed) == ReachableThrough({}, {seed}, ChainTypes)

StatedLayerOrder ==
  <<"ApexClass", "Flow", "GenAiFunction", "GenAiPlugin", "GenAiPlannerBundle",
    "Bot", "BotVersion">>

StatedLayer(type) == CHOOSE i \in 1..Len(StatedLayerOrder) : StatedLayerOrder[i] = type

\* C6: the batch categories are categories of the layer order, in strictly
\* increasing layer position (so no category twice); a BotVersion batch is last.
C6_BatchesInLayerOrder ==
  pc = "planned" =>
    /\ \A i \in 1..Len(Batches) : Batches[i].metadataType \in Range(StatedLayerOrder)
    /\ \A i, j \in 1..Len(Batches) :
         i < j => StatedLayer(Batches[i].metadataType) < StatedLayer(Batches[j].metadataType)
    /\ \A i \in 1..Len(Batches) : Batches[i].metadataType = "BotVersion" => i = Len(Batches)

C6_Witness ==
  /\ pc = "planned"
  /\ Len(Batches) >= 3
  /\ Batches[Len(Batches)].metadataType = "BotVersion"
  /\ Batches[1].metadataType = "ApexClass"

\* C7: selecting the bot of the reference scenario yields the seven batches of
\* the layer order with each asset once, and selecting any bot yields a final
\* BotVersion batch that holds its version.
C7_BotPlanEndsWithVersion ==
  pc = "planned" =>
    /\ (/\ readdir = Workspace({}).readdir /\ botDir = Workspace({}).botDir
        /\ defs = Workspace({}).defs /\ selection = << <<"Bot", B1>> >>)
         => /\ [i \in 1..Len(Batches) |-> Batches[i].metadataType] = StatedLayerOrder
            /\ \A k \in { Key("ApexClass", C1), Key("Flow", W1), Key("GenAiFunction", F1),
                          Key("GenAiPlugin", G1), Key("GenAiPlannerBundle", P1),
                          Key("Bot", B1) } : Occurrences(PlanItemsSeq, k) = 1
            /\ \E n \in {v1, B1v1} : Occurrences(PlanItemsSeq, Key("BotVersion", n)) = 1
    /\ \A i \in 1..Len(selection) :
         (selection[i][1] = "Bot" /\ listBotVersions(selection[i][2]) # <<>>)
           => /\ Len(Batches) > 0
              /\ Batches[Len(Batches)].metadataType = "BotVersion"
              /\ \E f \in Range(listBotVersions(selection[i][2])) :
                   \E it \in Range(Batches[Len(Batches)].items) :
                     it.name \in {f.name, selection[i][2] \o <<".">> \o f.name}

\* The references between two items of one category, as pairs of names.
SameTypeEdges(type) ==
  {<<r.sourceName, r.targetName>> :
     r \in {x \in Range(allReferences) :
              /\ x.sourceType = type /\ x.targetType = type
              /\ Key(type, x.sourceName) \in Range(itemsByType[type])
              /\ Key(type, x.targetName) \in Range(itemsByType[type])}}

RECURSIVE Descendants(_, _, _)
Descendants(edges, found, frontier) ==
  LET next == {e[2] : e \in {x \in edges : x[1] \in frontier}} \ found
  IN  IF next = {} THEN found ELSE Descendants(edges, found \cup next, next)

HasCycle(type) ==
  \E e \in SameTypeEdges(type) : e[1] \in Descendants(SameTypeEdges(type), {}, {e[1]})

IndexOf(seq, x) == CHOOSE i \in 1..Len(seq) : seq[i] = x

\* C8: in a batch whose same-category references have no cycle, an item
\* comes after every item of the batch it references.
C8_DependenciesFirst ==
  pc = "planned" =>
    \A b \in 1..Len(Batches) :
      LET type == Batches[b].metadataType
          items == Batches[b].items
      IN  ~HasCycle(type) =>
            \A e \in SameTypeEdges(type) :
              (e[1] # e[2] /\ Key(type, e[1]) \in Range(items) /\ Key(type, e[2]) \in Range(items))
                => IndexOf(items, Key(type, e[2])) < IndexOf(items, Key(type, e[1]))

IsPermutation(a, b) ==
  /\ Len(a) = Len(b)
  /\ \A x \in Range(a) \cup Range(b) : Occurrences(a, x) = Occurrences(b, x)

\* C9: for every category the sort emits a permutation of the items it was
\* given, in their original order when the references of the category have a
\* cycle, and the batch of the category holds what the sort emitted.
C9_SortIsCycleSafe ==
  pc = "planned" =>
    /\ DOMAIN sortedByType = DOMAIN itemsByType
    /\ \A type \in DOMAIN itemsByType :
         /\ IsPermutation(sortedByType[type], itemsByType[type])
         /\ NoDuplicates(sortedByType[type])
         /\ HasCycle(type) => sortedByType[type] = itemsByType[type]
         /\ type \in Range(StatedLayerOrder) =>
              \E b \in 1..Len(Batches) :
                Batches[b].metadataType = type /\ Batches[b].items = sortedByType[type]

C9_Witness ==
  /\ pc = "planned"
  /\ \E type \in DOMAIN itemsByType :
       /\ HasCycle(type)
       /\ Len(itemsByType[type]) >= 2
       /\ \E b \in 1..Len(Batches) : Batches[b].items = itemsByType[type]
  /\ Len(Batches) >= 3

\* C10: the batch numbers are 1, 2, ..., k in batch order, k the number of
\* categories with a member.
C10_BatchNumbersSequential ==
  pc = "planned" =>
    /\ \A i \in 1..Len(Batches) : Batches[i].batchNumber = i
    /\ Len(Batches) =
         Cardinality({type \in Range(StatedLayerOrder) :
                        \E it \in Range(expandedItems) : it.type = type})

\* A category without members lies between two batches.
C10_Witness ==
  /\ pc = "planned"
  /\ \E i \in 1..Len(Batches) :
       /\ i > 1
       /\ StatedLayer(Batches[i].metadataType) > StatedLayer(Batches[i - 1].metadataType) + 1

(***************************************************************************)
(* Plans handed to validatePlan, validate_plan and deploy_plan: the        *)
(* batches are numbered from 1 in order, as createBatches numbers them;    *)
(* their categories and items are the caller's, so that a plan can repeat  *)
(* an item or hold its batches out of layer order.                         *)
(***************************************************************************)
MaxBatches == 2

BatchShapes ==
  { <<"ApexClass", <<C1>> >>, <<"ApexClass", <<C1, C2>> >>,
    <<"Flow", <<W1>> >>, <<"GenAiFunction", <<F1>> >> }

PlanOf(shapes) ==
  [batches |-> [i \in 1..Len(shapes) |->
                  Batch(i, shapes[i][1],
                        [j \in 1..Len(shapes[i][2]) |-> Key(shapes[i][1], shapes[i][2][j])])],
   totalItems |-> 0, estimatedSteps |-> Len(shapes), warnings |-> <<>>]

PlansOver(shapeSet) ==
  {PlanOf(shapes) : shapes \in UNION {[1..n -> shapeSet] : n \in 0..MaxBatches}}

\* The plans validatePlan is called with.
PlanArgs == PlansOver(BatchShapes)

\* The plans validate_plan and deploy_plan are called with, or none.
WalkShapes == { <<"ApexClass", <<C1, C2>> >>, <<"Flow", <<W1>> >> }

WalkArgs == {undefined} \cup {<<p>> : p \in PlansOver(WalkShapes)}

(***************************************************************************)
(* DependencyGraph.validatePlan                                            *)
(***************************************************************************)
\* Array.prototype.indexOf: the 0-based position of x, -1 when it is absent.
indexOf(seq, x) ==
  IF x \in Range(seq) THEN (CHOOSE i \in 1..Len(seq) : seq[i] = x /\ \A j \in 1..(i - 1) : seq[j] # x) - 1
  ELSE -1

PlanError(text, subject) == [text |-> text, subject |-> subject]

\* The walk over the batches that compares each layer index with the last.
RECURSIVE orderErrors(_, _, _)
orderErrors(batches, lastLayerIndex, errors) ==
  IF batches = <<>> THEN errors
  ELSE LET batch == Head(batches)
           currentIndex == indexOf(DEPLOYMENT_LAYER_ORDER, batch.metadataType)
       IN  orderErrors(Tail(batches), currentIndex,
                       IF currentIndex < lastLayerIndex
                       THEN Append(errors, PlanError("Invalid batch order", batch.metadataType))
                       ELSE errors)

\* All the items of the batches, batch after batch.
RECURSIVE itemsOf(_)
itemsOf(batches) == IF batches = <<>> THEN <<>> ELSE Head(batches).items \o itemsOf(Tail(batches))

\* The walk over the items with the set of the keys seen so far.
RECURSIVE duplicateErrors(_, _, _)
duplicateErrors(items, seen, errors) ==
  IF items = <<>> THEN errors
  ELSE LET key == Key(Head(items).type, Head(items).name)
       IN  duplicateErrors(Tail(items), SetAdd(seen, key),
                           IF key \in Range(seen)
                           THEN Append(errors, PlanError("Duplicate item in plan", key))
                           ELSE errors)

validationOf(errors) == [valid |-> Len(errors) = 0, errors |-> errors]

\* Variant: the items are not compared with those seen before.
validatePlan_OrderOnly(p) ==
  IF Len(p.batches) = 0
  THEN [valid |-> FALSE, errors |-> <<PlanError("Deployment plan is empty", <<>>)>>]
  ELSE validationOf(orderErrors(p.batches, -1, <<>>))

validatePlan(p) ==
  IF Len(p.batches) = 0
  THEN [valid |-> FALSE, errors |-> <<PlanError("Deployment plan is empty", <<>>)>>]
  ELSE validationOf(duplicateErrors(itemsOf(p.batches), <<>>, orderErrors(p.batches, -1, <<>>)))

(***************************************************************************)
(* The plan tools: one of them is called with a plan.                      *)
(***************************************************************************)
PlanInit ==
  /\ LET ws == Workspace({})
     IN  /\ readdir = ws.readdir
         /\ botDir = ws.botDir
         /\ defs = ws.defs
  /\ broken = NoneBroken
  /\ NoInvocation
  /\ pc = "idle"
  /\ selection = <<>>
  /\ build = NoBuild
  /\ tool = "none"
  /\ opc = "idle"
  /\ planArg = undefined
  /\ checkOnly = FALSE
  /\ cursor = 0
  /\ cumulativeComponents = <<>>
  /\ batchResults = <<>>
  /\ failedAtBatch = undefined
  /\ timedOut = FALSE
  /\ result = NoResult
  /\ retryCount = 0
  /\ packageXmlResult = [success |-> FALSE]
  /\ retrievedMetadata = <<>>
  /\ allMissingMetadata = <<>>
  /\ elapsed = 0
  /\ manifestDir = EmptyDir
  /\ calls = EmptyBag
  /\ response = undefined

\* What no plan tool changes.
workspaceVars == <<readdir, botDir, defs, broken, pc, selection, build, tempDir, inflight>>

\* DependencyGraph.validatePlan called with a plan.
ValidatePlan ==
  /\ opc = "idle"
  /\ tool' = "validatePlan"
  /\ opc' = "returned"
  /\ \E p \in PlanArgs :
       /\ planArg' = <<p>>
       /\ response' = <<validatePlan(p)>>
  /\ UNCHANGED <<checkOnly, cursor, cumulativeComponents, batchResults, failedAtBatch,
                 timedOut, result, retryCount, packageXmlResult, retrievedMetadata,
                 allMissingMetadata, elapsed, manifestDir, calls>>
  /\ UNCHANGED workspaceVars

(***************************************************************************)
(* SalesforceCli: manifests, and the results of the sf commands            *)
(***************************************************************************)
\* A line of a package.xml: an element and its text.
XmlLine(tag, text) == [tag |-> tag, text |-> text]

\* The API version getOrgApiVersion answers with when the org names none.
SfApiVersion == <<"5", "9", ".", "0">>

\* The names of the components of one type, in the order they were pushed.
membersOfType(components, typeName) ==
  LET ofType == SelectSeq(components, LAMBDA c : c.type = typeName)
  IN  [i \in 1..Len(ofType) |-> ofType[i].name]

\* The <types> elements, one per key of typeMap in insertion order.
RECURSIVE typesXml(_, _)
typesXml(components, typeNames) ==
  IF typeNames = <<>> THEN <<>>
  ELSE LET members == membersOfType(components, Head(typeNames))
       IN  <<XmlLine("types", <<>>)>>
             \o [i \in 1..Len(members) |-> XmlLine("members", members[i])]
             \o <<XmlLine("name", Head(typeNames)), XmlLine("/types", <<>>)>>
             \o typesXml(components, Tail(typeNames))

generatePackageXml(components, apiVersion) ==
  <<XmlLine("?xml", <<>>), XmlLine("Package", <<>>)>>
    \o typesXml(components, SetAddAll(<<>>, [i \in 1..Len(components) |-> components[i].type]))
    \o <<XmlLine("version", apiVersion), XmlLine("/Package", <<>>)>>

\* An error text of sf project deploy validate: the field and the object it
\* quotes, if any, and whether "doesn't exist" follows the object.
ErrorText(field, object, doesntExist) ==
  [field |-> field, object |-> object, doesntExist |-> doesntExist]

Xc == <<"X", "_", "_", "c">>
Y1 == <<"Y">>

endsWithCustomSuffix(name) ==
  Len(name) > 3 /\ SubSeq(name, Len(name) - 2, Len(name)) = <<"_", "_", "c">>

\* The first pattern that matches decides; an error no pattern matches
\* adds nothing.
RECURSIVE parseMissingMetadataErrors(_)
parseMissingMetadataErrors(errorDetails) ==
  IF errorDetails = <<>> THEN <<>>
  ELSE LET error == Head(errorDetails)
           rest == parseMissingMetadataErrors(Tail(errorDetails))
       IN  IF error.field # <<>> /\ endsWithCustomSuffix(error.field) /\ error.object # <<>>
           THEN <<[type |-> "CustomField", name |-> error.field, objectName |-> error.object]>> \o rest
           ELSE IF error.object # <<>> /\ error.doesntExist
           THEN <<[type |-> "CustomObject", name |-> error.object, objectName |-> <<>>]>> \o rest
           ELSE rest

\* What sf project deploy validate prints: status 0, a failure with its
\* problems, or text that is no JSON.
CliOutput(status, problems) == [status |-> status, problems |-> problems]

CliOutputs ==
  { CliOutput("0", <<>>),
    CliOutput("1", <<ErrorText(Xc, Y1, TRUE)>>),
    CliOutput("1", <<ErrorText(<<>>, <<>>, FALSE)>>),
    CliOutput("unparsable", <<>>) }

\* validateComponents -> validateMetadata, given what the command printed.
validateMetadata(out) ==
  IF out.status = "unparsable"
  THEN [success |-> FALSE, errorDetails |-> <<ErrorText(<<>>, <<>>, FALSE)>>, missingMetadata |-> <<>>]
  ELSE IF out.status = "0"
  THEN [success |-> TRUE, errorDetails |-> <<>>, missingMetadata |-> <<>>]
  ELSE [success |-> FALSE, errorDetails |-> out.problems,
        missingMetadata |-> parseMissingMetadataErrors(out.problems)]

\* A request sent to the command executor or a manifest written, as the
\* handler makes it: for which batch, with which manifest or gap.
Call(op, batchNumber, payload) == [op |-> op, batch |-> batchNumber, payload |-> payload]

\* The bag with one more copy of each element of a sequence.
RECURSIVE WithAll(_, _)
WithAll(bag, seq) ==
  IF seq = <<>> THEN bag ELSE WithAll(bag (+) SetToBag({Head(seq)}), Tail(seq))

\* The times (ms since the call started) a command can be back at: on and
\* past the two thresholds of validate_plan.
TimePoints == {45000, 55000, 60000}

\* The clock never runs backwards.
Later(now) == {t \in TimePoints : t >= now}

(***************************************************************************)
(* Tool validate_plan, one action per stretch between two awaited commands *)
(***************************************************************************)
\* Variant: the budget without the buffer of 10 s before a batch.
MCP_TIMEOUT_MS_NoBuffer == 55000 + 10000

MCP_TIMEOUT_MS == 55000

maxRetries == 3

batchComponents(batch) ==
  [i \in 1..Len(batch.items) |-> [type |-> batch.items[i].type, name |-> batch.items[i].name]]

customMetadataToRetrieve(res) ==
  SelectSeq(res.missingMetadata, LAMBDA m : m.type = "CustomObject" \/ m.type = "CustomField")

\* Variant: one more turn of the retry loop is allowed.
retryLoopGoesOn_OneMore(res, count) ==
  ~res.success /\ count <= maxRetries /\ customMetadataToRetrieve(res) # <<>>

\* Variant: any failure is retried, whether or not it names a gap.
retryLoopGoesOn_AnyFailure(res, count) == ~res.success /\ count < maxRetries

\* The retry loop takes another turn: the validation failed, retries are
\* left and the failure names a custom object or field to retrieve.
retryLoopGoesOn(res, count) ==
  ~res.success /\ count < maxRetries /\ customMetadataToRetrieve(res) # <<>>

\* Variant: the walk goes on to the next batch after a failure too.
afterOutcome_NoBreak(success, position) == [opc |-> "loop", cursor |-> position + 1]

\* Variant: after a failure the walk takes up the failed batch again.
afterOutcome_Resume(success, position) ==
  [opc |-> "loop", cursor |-> IF success THEN position + 1 ELSE position]

\* Where the loop over the batches goes once a batch has its outcome: on to
\* the next batch, or out of the loop at the first failure (break).
afterOutcome(success, position) ==
  IF ~success THEN [opc |-> "finish", cursor |-> position]
  ELSE [opc |-> "loop", cursor |-> position + 1]

\* Variant: the resume point is the last batch with an outcome.
resumePoint_LastDone(flag, results) == IF flag THEN <<Len(results)>> ELSE undefined

\* nextBatchToValidate: timedOut ? (batchResults.length + 1) : undefined
resumePoint(flag, results) == IF flag THEN <<Len(results) + 1>> ELSE undefined

checkMetadataExistsLocally(type, name) ==
  IF type = "ApexClass" THEN name \in Range(listApexClasses)
  ELSE IF type = "Flow" THEN name \in Range(listFlows)
  ELSE IF type \in {"GenAiFunction", "GenAiPlugin", "GenAiPlannerBundle"}
  THEN \E a \in Range(listGenAiAssets) : a.type = type /\ a.name = name
  ELSE FALSE

\* The call arrives: no plan is an error, otherwise the walk starts.
ValidatePlanCall ==
  /\ opc = "idle"
  /\ tool' = "validate_plan"
  /\ \E arg \in WalkArgs :
       /\ planArg' = arg
       /\ IF arg = undefined
          THEN /\ opc' = "returned"
               /\ response' = <<[isError |-> TRUE, text |-> "Error: valid plan object is required"]>>
               /\ cursor' = cursor
          ELSE /\ opc' = "loop"
               /\ response' = response
               /\ cursor' = 1
  /\ UNCHANGED <<checkOnly, cumulativeComponents, batchResults, failedAtBatch,
                 timedOut, result, retryCount, packageXmlResult, retrievedMetadata,
                 allMissingMetadata, elapsed, manifestDir, calls>>
  /\ UNCHANGED workspaceVars

\* The head of the loop for the next batch: the two checks of the time, the
\* batch's components added to the cumulative list, package_n.xml written.
StartBatch ==
  /\ tool = "validate_plan"
  /\ opc = "loop"
  /\ cursor <= Len(planArg[1].batches)
  /\ LET batch == planArg[1].batches[cursor]
         cumulative == cumulativeComponents \o batchComponents(batch)
     IN  IF elapsed > MCP_TIMEOUT_MS
         THEN /\ timedOut' = TRUE
              /\ opc' = "finish"
              /\ UNCHANGED <<cumulativeComponents, packageXmlResult, manifestDir, calls>>
         ELSE /\ cumulativeComponents' = cumulative
              /\ IF elapsed > MCP_TIMEOUT_MS - 10000
                 THEN /\ timedOut' = TRUE
                      /\ opc' = "finish"
                      /\ UNCHANGED <<packageXmlResult, manifestDir, calls>>
                 ELSE /\ timedOut' = timedOut
                      /\ opc' = "validate"
                      /\ \E written \in BOOLEAN :
                           /\ packageXmlResult' = [success |-> written]
                           /\ manifestDir' =
                                IF written
                                THEN [n \in DOMAIN manifestDir \cup {batch.batchNumber} |->
                                        IF n = batch.batchNumber
                                        THEN generatePackageXml(cumulative, SfApiVersion)
                                        ELSE manifestDir[n]]
                                ELSE manifestDir
                      /\ calls' = WithAll(calls, <<Call("writePackageXml", batch.batchNumber,
                                                         generatePackageXml(cumulative, SfApiVersion))>>)
  /\ UNCHANGED <<tool, planArg, checkOnly, cursor, batchResults, failedAtBatch, result,
                 retryCount, retrievedMetadata, allMissingMetadata, elapsed, response>>
  /\ UNCHANGED workspaceVars

\* Variant: the retry counter is carried over from the batch before.
Validate_SharedCounter ==
  /\ tool = "validate_plan"
  /\ opc = "validate"
  /\ \E out \in CliOutputs, t \in Later(elapsed) :
       /\ result' = validateMetadata(out)
       /\ elapsed' = t
  /\ calls' = WithAll(calls, <<Call("validateComponents", planArg[1].batches[cursor].batchNumber,
                                     generatePackageXml(cumulativeComponents, SfApiVersion))>>)
  /\ retryCount' = retryCount
  /\ opc' = "retry"
  /\ UNCHANGED <<tool, planArg, checkOnly, cursor, cumulativeComponents, batchResults,
                 failedAtBatch, timedOut, packageXmlResult, retrievedMetadata,
                 allMissingMetadata, manifestDir, response>>
  /\ UNCHANGED workspaceVars

\* The cumulative components are submitted for validation.
Validate ==
  /\ tool = "validate_plan"
  /\ opc = "validate"
  /\ \E out \in CliOutputs, t \in Later(elapsed) :
       /\ result' = validateMetadata(out)
       /\ elapsed' = t
  /\ calls' = WithAll(calls, <<Call("validateComponents", planArg[1].batches[cursor].batchNumber,
                                     generatePackageXml(cumulativeComponents, SfApiVersion))>>)
  /\ retryCount' = 0
  /\ opc' = "retry"
  /\ UNCHANGED <<tool, planArg, checkOnly, cursor, cumulativeComponents, batchResults,
                 failedAtBatch, timedOut, packageXmlResult, retrievedMetadata,
                 allMissingMetadata, manifestDir, response>>
  /\ UNCHANGED workspaceVars

\* The gaps whose retrieval succeeded, as they are pushed to
\* retrievedMetadata: retrieved[j] says whether retrieveCustomMetadata came
\* back with success for the gap j (FALSE: it failed or threw).
pushed(missing, retrieved) ==
  [i \in 1..Cardinality({j \in 1..Len(missing) : retrieved[j]}) |->
     LET k == CHOOSE j \in 1..Len(missing) :
                /\ retrieved[j]
                /\ Cardinality({h \in 1..j : retrieved[h]}) = i
     IN  [type |-> missing[k].type, name |-> missing[k].name]]

\* Variant: the first retrieval that fails or throws ends the loop over
\* the gaps.
retrievals_UntilFailure(batchNumber, missing, retrieved) ==
  LET made == {j \in 1..Len(missing) : \A h \in 1..(j - 1) : retrieved[h]}
  IN  [i \in 1..Cardinality(made) |->
         Call("retrieveCustomMetadata", batchNumber, missing[i])]

\* The retrievals of one turn of the retry loop: one per gap, however the
\* retrievals before it came back.
retrievals(batchNumber, missing, retrieved) ==
  [i \in 1..Len(missing) |->
     Call("retrieveCustomMetadata", batchNumber, missing[i])]

\* One turn of the retry loop: every missing custom object or field is
\* retrieved from the org, then the same components are validated again.
Retry ==
  /\ tool = "validate_plan"
  /\ opc = "retry"
  /\ retryLoopGoesOn(result, retryCount)
  /\ LET missing == customMetadataToRetrieve(result)
         batchNumber == planArg[1].batches[cursor].batchNumber
     IN  \E retrieved \in [1..Len(missing) -> BOOLEAN] :
           /\ retrievedMetadata' = retrievedMetadata \o pushed(missing, retrieved)
           /\ calls' = WithAll(calls,
                                retrievals(batchNumber, missing, retrieved)
                                  \o <<Call("validateComponents", batchNumber,
                                            generatePackageXml(cumulativeComponents, SfApiVersion))>>)
  /\ retryCount' = retryCount + 1
  /\ \E out \in CliOutputs, t \in Later(elapsed) :
       /\ result' = validateMetadata(out)
       /\ elapsed' = t
  /\ UNCHANGED <<tool, opc, planArg, checkOnly, cursor, cumulativeComponents, batchResults,
                 failedAtBatch, timedOut, packageXmlResult, allMissingMetadata, manifestDir,
                 response>>
  /\ UNCHANGED workspaceVars

\* The retry loop is left: the batch's outcome is recorded; a failure ends
\* the walk, a success moves it to the next batch.
FinishBatch ==
  /\ tool = "validate_plan"
  /\ opc = "retry"
  /\ ~retryLoopGoesOn(result, retryCount)
  /\ LET batch == planArg[1].batches[cursor]
         batchResult ==
           [batchNumber |-> batch.batchNumber, metadataType |-> batch.metadataType,
            success |-> result.success, errors |-> result.errorDetails,
            missingMetadata |-> result.missingMetadata,
            componentsValidated |-> Len(cumulativeComponents),
            packageXmlPath |-> IF packageXmlResult.success THEN <<batch.batchNumber>>
                               ELSE undefined]
     IN  /\ batchResults' = Append(batchResults, batchResult)
         /\ IF ~result.success
            THEN /\ allMissingMetadata' =
                      allMissingMetadata \o
                        SelectSeq(result.missingMetadata,
                                  LAMBDA m : /\ m.type # "CustomObject" /\ m.type # "CustomField"
                                             /\ checkMetadataExistsLocally(m.type, m.name))
                 /\ failedAtBatch' = <<batch.batchNumber>>
            ELSE UNCHANGED <<allMissingMetadata, failedAtBatch>>
         /\ opc' = afterOutcome(result.success, cursor).opc
         /\ cursor' = afterOutcome(result.success, cursor).cursor
  /\ UNCHANGED <<tool, planArg, checkOnly, cumulativeComponents, timedOut, result, retryCount,
                 packageXmlResult, retrievedMetadata, elapsed, manifestDir, calls, response>>
  /\ UNCHANGED workspaceVars

\* After the loop: the result is put together and returned.
ValidatePlanReturn ==
  /\ tool = "validate_plan"
  /\ opc = "finish" \/ (opc = "loop" /\ cursor > Len(planArg[1].batches))
  /\ opc' = "returned"
  /\ LET success == failedAtBatch = undefined /\ ~timedOut
     IN  response' =
           <<[success |-> success,
              completedBatches |-> Len(SelectSeq(batchResults, LAMBDA r : r.success)),
              totalBatches |-> Len(planArg[1].batches),
              results |-> batchResults,
              failedAtBatch |-> failedAtBatch,
              missingMetadataFoundLocally |-> allMissingMetadata,
              retrievedMetadata |-> retrievedMetadata,
              overallDuration |-> elapsed,
              timedOut |-> timedOut,
              nextBatchToValidate |-> resumePoint(timedOut, batchResults),
              isError |-> ~success]>>
  /\ UNCHANGED <<tool, planArg, checkOnly, cursor, cumulativeComponents, batchResults,
                 failedAtBatch, timedOut, result, retryCount, packageXmlResult,
                 retrievedMetadata, allMissingMetadata, elapsed, manifestDir, calls>>
  /\ UNCHANGED workspaceVars

(***************************************************************************)
(* Tool deploy_plan                                                        *)
(***************************************************************************)
\* The call arrives: no plan is an error, otherwise the walk starts.
DeployPlanCall ==
  /\ opc = "idle"
  /\ tool' = "deploy_plan"
  /\ \E c \in BOOLEAN : checkOnly' = c
  /\ \E arg \in WalkArgs :
       /\ planArg' = arg
       /\ IF arg = undefined
          THEN /\ opc' = "returned"
               /\ response' = <<[isError |-> TRUE, text |-> "Error: valid plan object is required"]>>
               /\ cursor' = cursor
          ELSE /\ opc' = "loop"
               /\ response' = response
               /\ cursor' = 1
  /\ UNCHANGED <<cumulativeComponents, batchResults, failedAtBatch, timedOut, result,
                 retryCount, packageXmlResult, retrievedMetadata, allMissingMetadata, elapsed,
                 manifestDir, calls>>
  /\ UNCHANGED workspaceVars

\* One turn of the loop: the batch's own components are deployed and the
\* outcome recorded; a failure ends the walk.
DeployBatch ==
  /\ tool = "deploy_plan"
  /\ opc = "loop"
  /\ cursor <= Len(planArg[1].batches)
  /\ LET batch == planArg[1].batches[cursor]
         components == batchComponents(batch)
     IN  /\ calls' = WithAll(calls, <<Call("deployComponents", batch.batchNumber,
                                            [manifest |-> generatePackageXml(components, SfApiVersion),
                                             checkOnly |-> checkOnly])>>)
         /\ \E deployed \in BOOLEAN, t \in Later(elapsed) :
              /\ elapsed' = t
              /\ batchResults' =
                   Append(batchResults,
                          [success |-> deployed, batchNumber |-> batch.batchNumber,
                           deployedItems |-> components, duration |-> t - elapsed])
              /\ failedAtBatch' = IF ~deployed THEN <<batch.batchNumber>> ELSE failedAtBatch
              /\ opc' = afterOutcome(deployed, cursor).opc
              /\ cursor' = afterOutcome(deployed, cursor).cursor
  /\ UNCHANGED <<tool, planArg, checkOnly, cumulativeComponents, timedOut, result, retryCount,
                 packageXmlResult, retrievedMetadata, allMissingMetadata, manifestDir, response>>
  /\ UNCHANGED workspaceVars

\* After the loop: the result is put together and returned.
DeployPlanReturn ==
  /\ tool = "deploy_plan"
  /\ opc = "finish" \/ (opc = "loop" /\ cursor > Len(planArg[1].batches))
  /\ opc' = "returned"
  /\ response' =
       <<[success |-> failedAtBatch = undefined,
          completedBatches |-> Len(SelectSeq(batchResults, LAMBDA r : r.success)),
          totalBatches |-> Len(planArg[1].batches),
          results |-> batchResults,
          failedAtBatch |-> failedAtBatch,
          overallDuration |-> elapsed,
          isError |-> ~(failedAtBatch = undefined)]>>
  /\ UNCHANGED <<tool, planArg, checkOnly, cursor, cumulativeComponents, batchResults,
                 failedAtBatch, timedOut, result, retryCount, packageXmlResult,
                 retrievedMetadata, allMissingMetadata, elapsed, manifestDir, calls>>
  /\ UNCHANGED workspaceVars

PlanNext ==
  \/ ValidatePlan
  \/ ValidatePlanCall \/ StartBatch \/ Validate \/ Retry \/ FinishBatch \/ ValidatePlanReturn
  \/ DeployPlanCall \/ DeployBatch \/ DeployPlanReturn

PlanSpec == PlanInit /\ [][PlanNext]_vars

(***************************************************************************)
(* C11 .. C20                                                              *)
(***************************************************************************)
Returned(name) == tool = name /\ opc = "returned" /\ planArg # undefined

\* The positions whose batch lies earlier in the layer order than the batch
\* before it.
OutOfOrder(p) ==
  {i \in 2..Len(p.batches) :
     StatedLayer(p.batches[i].metadataType) < StatedLayer(p.batches[i - 1].metadataType)}

Repeated(p) == {k \in Range(itemsOf(p.batches)) : Occurrences(itemsOf(p.batches), k) > 1}

\* C11: validatePlan answers every plan; for a plan that repeats an
\* identifier or holds a batch of an earlier layer than the batch before it,
\* the answer is valid = false with one error per violation: one per repeat,
\* naming the identifier, and one per misplaced batch, naming its category.
C11_ValidatePlanFlagsViolations ==
  Returned("validatePlan") =>
    LET p == planArg[1]
        v == response[1]
        items == itemsOf(p.batches)
    IN  /\ \A k \in Range(items) :
             Occurrences(v.errors, PlanError("Duplicate item in plan", k)) = Occurrences(items, k) - 1
        /\ \A i \in OutOfOrder(p) :
             PlanError("Invalid batch order", p.batches[i].metadataType) \in Range(v.errors)
        /\ Cardinality({j \in 1..Len(v.errors) : v.errors[j].text = "Invalid batch order"})
             = Cardinality(OutOfOrder(p))
        /\ (Repeated(p) # {} \/ OutOfOrder(p) # {}) => ~v.valid

C11_Witness ==
  /\ Returned("validatePlan")
  /\ Repeated(planArg[1]) # {}
  /\ ~response[1].valid
  /\ \E k \in Repeated(planArg[1]) : PlanError("Duplicate item in plan", k) \in Range(response[1].errors)

\* How often the handler made a call for a batch number.
CallsFor(op, n) ==
  LET made == {c \in BagToSet(calls) : c.op = op /\ c.batch = n}
      RECURSIVE sum(_)
      sum(S) == IF S = {} THEN 0
                ELSE LET c == CHOOSE x \in S : TRUE IN CopiesIn(c, calls) + sum(S \ {c})
  IN  sum(made)

BatchNumbers == {planArg[1].batches[i].batchNumber : i \in 1..Len(planArg[1].batches)}

Walking(name) == tool = name /\ planArg # undefined

\* The recorded outcomes that are a failure naming a recoverable gap.
GapOutcomes ==
  {i \in 1..Len(batchResults) :
     /\ ~batchResults[i].success
     /\ \E m \in Range(batchResults[i].missingMetadata) : m.type \in {"CustomField", "CustomObject"}}

\* C12: validate_plan submits the manifest of a batch at most 4 times and
\* makes at most 3 retrievals for it; a batch whose validation still fails
\* with the recoverable gap has been submitted 4 times and retrieved for 3
\* times, and is reported failed: failedAtBatch is its number.
C12_AtMostThreeRetries ==
  Walking("validate_plan") =>
    /\ \A n \in BatchNumbers :
         /\ CallsFor("validateComponents", n) <= 4
         /\ CallsFor("retrieveCustomMetadata", n) <= 3
    /\ \A i \in GapOutcomes :
         /\ CallsFor("validateComponents", batchResults[i].batchNumber) = 4
         /\ CallsFor("retrieveCustomMetadata", batchResults[i].batchNumber) = 3
         /\ failedAtBatch = <<batchResults[i].batchNumber>>

C12_Witness ==
  /\ Returned("validate_plan")
  /\ GapOutcomes # {}
  /\ response[1].failedAtBatch = <<2>>
  /\ CallsFor("validateComponents", 2) = 4

\* The positions of the plan's batches a call has been made for or a
\* manifest written for.
Touched ==
  {j \in 1..Len(planArg[1].batches) :
     LET n == planArg[1].batches[j].batchNumber
     IN  \/ n \in DOMAIN manifestDir
         \/ \E c \in BagToSet(calls) : c.batch = n}

\* C13: validate_plan takes the batches in plan order, one at a time: a
\* manifest is written or a validation or retrieval requested for a batch
\* only once every batch before it has its outcome recorded and that outcome
\* is a success; so after a failure nothing is done for any later batch.
C13_BatchesInPlanOrder ==
  Walking("validate_plan") =>
    \A j \in Touched :
      \A h \in 1..(j - 1) :
        /\ h <= Len(batchResults)
        /\ batchResults[h].batchNumber = planArg[1].batches[h].batchNumber
        /\ batchResults[h].success

C13_Witness ==
  /\ Returned("validate_plan")
  /\ Len(planArg[1].batches) = 2
  /\ failedAtBatch = <<1>>
  /\ Touched = {1}
  /\ CallsFor("retrieveCustomMetadata", 1) > 0

\* A manifest read back: the (category, name) pairs of its <types> elements,
\* one per <members> line, in document order.
RECURSIVE readTypes(_, _, _)
readTypes(lines, members, found) ==
  IF lines = <<>> THEN found
  ELSE LET line == Head(lines)
       IN  IF line.tag = "types" THEN readTypes(Tail(lines), <<>>, found)
           ELSE IF line.tag = "members" THEN readTypes(Tail(lines), Append(members, line.text), found)
           ELSE IF line.tag = "name"
           THEN readTypes(Tail(lines), <<>>,
                          found \o [i \in 1..Len(members) |-> Key(line.text, members[i])])
           ELSE readTypes(Tail(lines), members, found)

parseManifest(xml) == readTypes(xml, <<>>, <<>>)

\* The categories of the <types> elements of a manifest, in document order.
CategoriesOf(xml) ==
  LET names == SelectSeq(xml, LAMBDA line : line.tag = "name")
  IN  [i \in 1..Len(names) |-> names[i].text]

\* The identifiers of the batches up to the one numbered n.
UnionUpTo(n) ==
  UNION {Range(planArg[1].batches[i].items) :
           i \in {j \in 1..Len(planArg[1].batches) : planArg[1].batches[j].batchNumber <= n}}

\* The manifests validate_plan wrote or submitted, each with its batch number.
Manifests ==
  {[batch |-> c.batch, xml |-> c.payload] :
     c \in {x \in BagToSet(calls) : x.op \in {"writePackageXml", "validateComponents"}}}
    \cup {[batch |-> n, xml |-> manifestDir[n]] : n \in DOMAIN manifestDir}

\* C14: the manifest written and submitted for batch i holds exactly the
\* identifiers of batches 1..i, one <types> element per category and no
\* identifier listed twice, and read back it gives that same set.
C14_ManifestIsUnion ==
  Walking("validate_plan") =>
    \A m \in Manifests :
      LET listed == parseManifest(m.xml)
      IN  /\ Range(listed) = UnionUpTo(m.batch)
          /\ \A k \in Range(listed) : Occurrences(listed, k) = 1
          /\ \A t \in Range(CategoriesOf(m.xml)) : Occurrences(CategoriesOf(m.xml), t) = 1

\* The same without the demand that no identifier is listed twice.
C14_ManifestCoversUnion ==
  Walking("validate_plan") =>
    \A m \in Manifests :
      /\ Range(parseManifest(m.xml)) = UnionUpTo(m.batch)
      /\ \A t \in Range(CategoriesOf(m.xml)) : Occurrences(CategoriesOf(m.xml), t) = 1

\* A validation result that names no custom field or object to retrieve.
NoGap(res) == \A m \in Range(res.missingMetadata) : m.type \notin {"CustomField", "CustomObject"}

\* A failed validation with no recoverable gap has just come back.
FailedWithoutGap ==
  /\ Walking("validate_plan")
  /\ opc = "retry"
  /\ ~result.success
  /\ NoGap(result)

\* C15: when a validation of a batch fails and its errors name no
\* recoverable gap, the next step of validate_plan makes no call (no
\* retrieval, no further validation), records the batch as failed and
\* leaves the loop with failedAtBatch set to the batch's number.
C15_NoGapHaltsAtOnce ==
  [][FailedWithoutGap =>
       /\ calls' = calls
       /\ manifestDir' = manifestDir
       /\ opc' = "finish"
       /\ failedAtBatch' = <<planArg[1].batches[cursor].batchNumber>>
       /\ Len(batchResults') = Len(batchResults) + 1
       /\ ~batchResults'[Len(batchResults')].success
       /\ batchResults'[Len(batchResults')].batchNumber = planArg[1].batches[cursor].batchNumber]_vars

C15_Witness ==
  /\ Returned("validate_plan")
  /\ failedAtBatch = <<1>>
  /\ NoGap(batchResults[1])
  /\ CallsFor("validateComponents", 1) = 1
  /\ CallsFor("retrieveCustomMetadata", 1) = 0
  /\ response[1].failedAtBatch = <<1>>

\* The positions of the plan's batches with no recorded outcome.
WithoutOutcome(p, results) ==
  {j \in 1..Len(p.batches) :
     \A i \in 1..Len(results) : results[i].batchNumber # p.batches[j].batchNumber}

C17_TimedOutIsNotFailure ==
  Returned("validate_plan") =>
    LET r == response[1]
    IN  r.timedOut =>
          /\ r.failedAtBatch = undefined
          /\ \A i \in 1..Len(r.results) : r.results[i].success
          /\ ~r.isError

\* The part of it that is about the outcomes alone.
C17_TimedOutHasNoFailedBatch ==
  Returned("validate_plan") =>
    LET r == response[1]
    IN  r.timedOut =>
          /\ r.failedAtBatch = undefined
          /\ \A i \in 1..Len(r.results) : r.results[i].success

\* C18: when validate_plan returns timed out, package_n.xml exists in the
\* manifest directory for every batch n of the plan.
C18_ManifestForEveryBatch ==
  Returned("validate_plan") =>
    (response[1].timedOut => \A n \in BatchNumbers : n \in DOMAIN manifestDir)

\* The positions of the batches whose deployment failed.
FailedDeployments == {i \in 1..Len(batchResults) : ~batchResults[i].success}

\* C20: deploy_plan deploys the batches in plan order, each at most once,
\* and stops at the first failure: no later batch is submitted, failedAtBatch
\* is the failing batch's number, completedBatches counts the batches before
\* it, and success is true exactly when every batch of the plan was deployed
\* successfully.
C20_DeployStopsAtFirstFailure ==
  Walking("deploy_plan") =>
    /\ \A n \in BatchNumbers : CallsFor("deployComponents", n) <= 1
    /\ \A j \in Touched :
         \A h \in 1..(j - 1) :
           /\ h <= Len(batchResults)
           /\ batchResults[h].batchNumber = planArg[1].batches[h].batchNumber
           /\ batchResults[h].success
    /\ opc = "returned" =>
         LET r == response[1]
             p == planArg[1]
         IN  /\ r.results = batchResults
             /\ r.success <=> /\ Len(r.results) = Len(p.batches)
                              /\ \A i \in 1..Len(r.results) : r.results[i].success
             /\ r.isError <=> ~r.success
             /\ IF FailedDeployments = {}
                THEN /\ r.failedAtBatch = undefined
                     /\ r.completedBatches = Len(p.batches)
                     /\ Touched = 1..Len(p.batches)
                ELSE LET f == CHOOSE i \in FailedDeployments : \A h \in FailedDeployments : i <= h
                     IN  /\ r.failedAtBatch = <<p.batches[f].batchNumber>>
                         /\ r.completedBatches = f - 1
                         /\ Touched = 1..f

C20_Witness ==
  /\ Returned("deploy_plan")
  /\ Len(planArg[1].batches) = 2
  /\ response[1].failedAtBatch = <<1>>
  /\ response[1].completedBatches = 0
  /\ ~response[1].success
  /\ CallsFor("deployComponents", 2) = 0

(***************************************************************************)
(* Definitions that cannot be read or parsed                               *)
(*                                                                         *)
(* The workspaces of the reference scenario with at most one edit, in      *)
(* which up to MaxBroken definition files throw when they are read or      *)
(* parsed; analyze_references and analyze_all_dependencies are called on   *)
(* them.                                                                   *)
(***************************************************************************)
MaxBroken == 1

BrokenKinds == {"unreadable", "unparsable"}

BrokenMaps(files) ==
  UNION {[S -> BrokenKinds] : S \in {T \in SUBSET files : Cardinality(T) <= MaxBroken}}

RecoveryInit ==
  /\ \E D \in EditSetsUpTo(1) :
       LET ws == Workspace(D)
       IN  /\ readdir = ws.readdir
           /\ botDir = ws.botDir
           /\ defs = ws.defs
           /\ broken \in BrokenMaps(DOMAIN ws.defs)
  /\ NoInvocation
  /\ pc = "idle"
  /\ selection = <<>>
  /\ build = NoBuild
  /\ NoCall

\* Tool analyze_references.
AnalyzeReferences ==
  /\ pc = "idle"
  /\ \E a \in AnalyzedAssets :
       /\ build' = [NoBuild EXCEPT !.allReferences = analyzeReferences(a.type, a.name)]
       /\ selection' = <<<<a.type, a.name>>>>
  /\ pc' = "referenced"
  /\ UNCHANGED <<readdir, botDir, defs, broken, orchVars, tempDir, inflight>>

RecoveryNext == AnalyzeReferences \/ AnalyzeAllDependencies

RecoverySpec == RecoveryInit /\ [][RecoveryNext]_vars

(***************************************************************************)
(* C19                                                                     *)
(***************************************************************************)
\* The reference was read from a file that throws.
SourceIsBroken(ref) ==
  \E file \in DOMAIN broken :
    /\ file.type = ref.sourceType
    /\ \/ toLowerCase(file.name) = toLowerCase(ref.sourceName)
       \/ file.type = "BotVersion" /\ VersionOf(file) = ref.sourceName

\* C19: extraction failures are recovered per asset.  analyzeReferences on
\* an asset whose definition is missing, unreadable or unparsable returns the
\* empty list; analyzeAllDependencies returns a closure that holds no
\* reference read from a broken definition and still holds every local asset
\* on a chain of references through the definitions that can be read, the
\* assets found before a failure and the broken asset itself included.
C19_ExtractionFailuresRecovered ==
  /\ pc = "referenced" =>
       LET file == getMetadataFilePath(selection[1][1], selection[1][2])
       IN  (file = NoFile \/ file \in DOMAIN broken) => allReferences = <<>>
  /\ pc = "analyzed" =>
       \A i \in 1..Len(depResults) :
         LET r == depResults[i]
         IN  /\ \A ref \in Range(r.dependencies) : ~SourceIsBroken(ref)
             /\ \A k \in ChainReach(r.seed) :
                  (k.type \in ChainTypes \cup {"ApexClass"} /\ IsLocal(k)) => k \in ClosureOf(r)

\* The planner P1 names the plugin G1, whose definition cannot be parsed,
\* and then the function F1: G1 is in the closure, and so are F1 and what F1
\* names.
C19_Witness ==
  /\ pc = "analyzed"
  /\ unparsable(Key("GenAiPlugin", G1))
  /\ depResults[1].seed = Key("GenAiPlannerBundle", P1)
  /\ defs[Key("GenAiPlannerBundle", P1)].links
       = <<Key("GenAiPlugin", G1), Key("GenAiFunction", F1)>>
  /\ {Key("GenAiPlugin", G1), Key("GenAiFunction", F1), Key("ApexClass", C1), Key("Flow", W1)}
       \subseteq ClosureOf(depResults[1])
  /\ \A ref \in Range(depResults[1].dependencies) : ref.sourceType # "GenAiPlugin"

(***************************************************************************)
(* A walk of validate_plan on its own, from the moment the call has        *)
(* arrived with a plan.  Every awaited command returns, so the handler     *)
(* takes its next step whenever it has one.                                *)
(***************************************************************************)
\* A plan as buildDeployPlan lays it out: a class batch, a flow batch, a
\* function batch.
LayeredShapes == << <<"ApexClass", <<C1, C2>> >>, <<"Flow", <<W1>> >>, <<"GenAiFunction", <<F1>> >> >>

LayeredPlans == {PlanOf(SubSeq(LayeredShapes, 1, n)) : n \in 0..MaxBatches}

WalkInit ==
  /\ LET ws == Workspace({})
     IN  /\ readdir = ws.readdir
         /\ botDir = ws.botDir
         /\ defs = ws.defs
  /\ broken = NoneBroken
  /\ NoInvocation
  /\ pc = "idle"
  /\ selection = <<>>
  /\ build = NoBuild
  /\ tool = "validate_plan"
  /\ opc = "loop"
  /\ planArg \in {<<p>> : p \in LayeredPlans}
  /\ checkOnly = FALSE
  /\ cursor = 1
  /\ cumulativeComponents = <<>>
  /\ batchResults = <<>>
  /\ failedAtBatch = undefined
  /\ timedOut = FALSE
  /\ result = NoResult
  /\ retryCount = 0
  /\ packageXmlResult = [success |-> FALSE]
  /\ retrievedMetadata = <<>>
  /\ allMissingMetadata = <<>>
  /\ elapsed = 0
  /\ manifestDir = EmptyDir
  /\ calls = EmptyBag
  /\ response = undefined

WalkNext == StartBatch \/ Validate \/ Retry \/ FinishBatch \/ ValidatePlanReturn

WalkSpec == WalkInit /\ [][WalkNext]_vars

\* The same walk when the handler is never left waiting for good.
WalkLiveSpec == WalkSpec /\ WF_vars(WalkNext)

(***************************************************************************)
(* C21 .. C30                                                              *)
(***************************************************************************)
\* The terminal outcomes of a walk, read from what it returned.
Completed(r) ==
  /\ r.success
  /\ Len(r.results) = r.totalBatches
  /\ \A i \in 1..Len(r.results) : r.results[i].success

Failed(r) == r.failedAtBatch # undefined

TimedOut(r) == r.timedOut

OutcomesOf(r) ==
  {o \in {"Completed", "Failed", "TimedOut"} :
     \/ o = "Completed" /\ Completed(r)
     \/ o = "Failed" /\ Failed(r)
     \/ o = "TimedOut" /\ TimedOut(r)}

\* The steps a walk has left at most: 8 for each batch not yet done, less
\* what the batch at hand has used up.
StepsLeft ==
  LET left == Len(planArg[1].batches) + 1 - cursor
  IN  CASE opc = "returned" -> 0
        [] opc = "finish" -> 1
        [] opc = "loop" -> 8 * left + 2
        [] opc = "validate" -> 8 * left + 1
        [] opc = "retry" -> 8 * left - retryCount

\* C21: a walk of validate_plan over a plan returns, with exactly one of
\* the outcomes Completed, Failed(i) and TimedOut.  Until it has returned it
\* has a next step to take, and every step brings it nearer to the return
\* (the steps left go down and never below 0), so it returns once every
\* awaited command has; once it has returned no validation or retrieval is
\* requested and no state of the walk changes.
C21_WalkTerminates ==
  /\ [](Walking("validate_plan") /\ opc # "returned" => ENABLED WalkNext)
  /\ [](Walking("validate_plan") => StepsLeft >= 0)
  /\ [][Walking("validate_plan") => StepsLeft' < StepsLeft]_vars
  /\ [](Returned("validate_plan") => Cardinality(OutcomesOf(response[1])) = 1)
  /\ [][Returned("validate_plan") => calls' = calls /\ opc' = opc /\ cursor' = cursor]_vars

\* The same as a property of the walk that is never left waiting.
C21_WalkReturns == Walking("validate_plan") ~> Returned("validate_plan")

\* A walk over two batches that completed after a retrieval.
C21_Witness ==
  /\ Returned("validate_plan")
  /\ OutcomesOf(response[1]) = {"Completed"}
  /\ Len(planArg[1].batches) = 2
  /\ retrievedMetadata # <<>>

\* The components of the batches up to position i, in plan order.
RECURSIVE ComponentsUpTo(_, _)
ComponentsUpTo(p, i) ==
  IF i = 0 THEN <<>> ELSE ComponentsUpTo(p, i - 1) \o batchComponents(p.batches[i])

\* The positions of the batches a validation has been submitted for.
Submitted ==
  {i \in 1..Len(planArg[1].batches) :
     CallsFor("validateComponents", planArg[1].batches[i].batchNumber) > 0}

\* C22: for every batch validate_plan has submitted a validation for,
\* package_<batchNumber>.xml is in the manifest directory and holds the
\* components of the batches up to it; a manifest once written stays as it is.
C22_ManifestBeforeValidation ==
  /\ [](Walking("validate_plan") =>
          \A i \in Submitted :
            LET n == planArg[1].batches[i].batchNumber
            IN  /\ n \in DOMAIN manifestDir
                /\ manifestDir[n] = generatePackageXml(ComponentsUpTo(planArg[1], i), SfApiVersion))
  /\ [][\A n \in DOMAIN manifestDir : n \in DOMAIN manifestDir' /\ manifestDir'[n] = manifestDir[n]]_vars

\* The part of it that does hold: a manifest that was written is the
\* cumulative one, and no step deletes or changes it.
C22_WrittenManifestsStay ==
  /\ [](Walking("validate_plan") =>
          \A i \in 1..Len(planArg[1].batches) :
            LET n == planArg[1].batches[i].batchNumber
            IN  n \in DOMAIN manifestDir =>
                  manifestDir[n] = generatePackageXml(ComponentsUpTo(planArg[1], i), SfApiVersion))
  /\ [][\A n \in DOMAIN manifestDir : n \in DOMAIN manifestDir' /\ manifestDir'[n] = manifestDir[n]]_vars

\* The walk is at the head of the loop with a batch to start.
AtBatchStart ==
  Walking("validate_plan") /\ opc = "loop" /\ cursor <= Len(planArg[1].batches)

\* The walk is inside a batch: its validation or a retry cycle is next.
InsideBatch == Walking("validate_plan") /\ opc \in {"validate", "retry"}

\* C23: the time budget is looked at when a batch starts and nowhere else.
\* With more than 45,000 ms gone at the start of a batch, the walk ends timed
\* out without a manifest, validation or retrieval for that batch, and makes
\* no call afterwards; with 45,000 ms or less the batch starts.  Inside a
\* batch the validation and every retry cycle the retry rule allows take
\* place whatever the time, and the walk is not marked timed out there.
C23_BudgetGovernsBatchStart ==
  /\ [][AtBatchStart /\ elapsed > 45000 =>
          calls' = calls /\ manifestDir' = manifestDir /\ timedOut' /\ opc' = "finish"]_vars
  /\ [][AtBatchStart /\ elapsed <= 45000 => ~timedOut' /\ opc' = "validate"]_vars
  /\ [][timedOut => calls' = calls /\ manifestDir' = manifestDir]_vars
  /\ [][InsideBatch => ~timedOut' /\ opc' \in {"retry", "loop", "finish"}]_vars
  /\ [][InsideBatch /\ (opc = "validate" \/ retryLoopGoesOn(result, retryCount)) =>
          CallsFor("validateComponents", planArg[1].batches[cursor].batchNumber)'
            = CallsFor("validateComponents", planArg[1].batches[cursor].batchNumber) + 1]_vars

\* A batch whose fourth validation came back failed past the budget: the
\* walk ends failed at it, not timed out.
C23_Witness ==
  /\ Returned("validate_plan")
  /\ elapsed > MCP_TIMEOUT_MS
  /\ response[1].failedAtBatch = <<1>>
  /\ ~response[1].timedOut
  /\ CallsFor("validateComponents", 1) = 4
  /\ CallsFor("retrieveCustomMetadata", 1) = 3

(***************************************************************************)
(* Tool validate_batch: one batch, with the components of the batches      *)
(* before it handed in as cumulativeComponents.  The handler reads no      *)
(* clock and writes no manifest.                                           *)
(***************************************************************************)
\* Variant: the components handed in are left out.
allComponents_BatchOnly(cumulative, batch) == batchComponents(batch)

\* allComponents = [...cumulativeComponents, ...batchComponents]
allComponents(cumulative, batch) == cumulative \o batchComponents(batch)

\* The call arrives: no batch is an error; otherwise the batch at some
\* position of a plan, with the components of the batches before it.
ValidateBatchCall ==
  /\ opc = "idle"
  /\ tool' = "validate_batch"
  /\ \E arg \in WalkArgs :
       IF arg = undefined \/ arg[1].batches = <<>>
       THEN /\ planArg' = undefined
            /\ opc' = "returned"
            /\ response' = <<[isError |-> TRUE, text |-> "Error: valid batch object is required"]>>
            /\ UNCHANGED <<cursor, cumulativeComponents>>
       ELSE \E i \in 1..Len(arg[1].batches) :
              /\ planArg' = arg
              /\ cursor' = i
              /\ cumulativeComponents' =
                   allComponents(ComponentsUpTo(arg[1], i - 1), arg[1].batches[i])
              /\ opc' = "validate"
              /\ response' = response
  /\ UNCHANGED <<checkOnly, batchResults, failedAtBatch, timedOut, result, retryCount,
                 packageXmlResult, retrievedMetadata, allMissingMetadata, elapsed,
                 manifestDir, calls>>
  /\ UNCHANGED workspaceVars

\* All the components are submitted for validation.
BatchValidate ==
  /\ tool = "validate_batch"
  /\ opc = "validate"
  /\ \E out \in CliOutputs : result' = validateMetadata(out)
  /\ calls' = WithAll(calls, <<Call("validateComponents", planArg[1].batches[cursor].batchNumber,
                                     generatePackageXml(cumulativeComponents, SfApiVersion))>>)
  /\ retryCount' = 0
  /\ opc' = "retry"
  /\ UNCHANGED <<tool, planArg, checkOnly, cursor, cumulativeComponents, batchResults,
                 failedAtBatch, timedOut, packageXmlResult, retrievedMetadata,
                 allMissingMetadata, elapsed, manifestDir, response>>
  /\ UNCHANGED workspaceVars

\* One turn of the retry loop: every missing custom object or field is
\* retrieved from the org, then the same components are validated again.
BatchRetry ==
  /\ tool = "validate_batch"
  /\ opc = "retry"
  /\ retryLoopGoesOn(result, retryCount)
  /\ LET missing == customMetadataToRetrieve(result)
         batchNumber == planArg[1].batches[cursor].batchNumber
     IN  \E retrieved \in [1..Len(missing) -> BOOLEAN] :
           /\ retrievedMetadata' = retrievedMetadata \o pushed(missing, retrieved)
           /\ calls' = WithAll(calls,
                                retrievals(batchNumber, missing, retrieved)
                                  \o <<Call("validateComponents", batchNumber,
                                            generatePackageXml(cumulativeComponents, SfApiVersion))>>)
  /\ retryCount' = retryCount + 1
  /\ \E out \in CliOutputs : result' = validateMetadata(out)
  /\ UNCHANGED <<tool, opc, planArg, checkOnly, cursor, cumulativeComponents, batchResults,
                 failedAtBatch, timedOut, packageXmlResult, allMissingMetadata, elapsed,
                 manifestDir, response>>
  /\ UNCHANGED workspaceVars

\* The retry loop is left: the batch's outcome is returned.
BatchReturn ==
  /\ tool = "validate_batch"
  /\ opc = "retry"
  /\ ~retryLoopGoesOn(result, retryCount)
  /\ opc' = "returned"
  /\ LET batch == planArg[1].batches[cursor]
     IN  response' =
           <<[batchNumber |-> batch.batchNumber, metadataType |-> batch.metadataType,
              success |-> result.success, errors |-> result.errorDetails,
              missingMetadata |-> result.missingMetadata,
              componentsValidated |-> Len(cumulativeComponents),
              retrievedMetadata |-> retrievedMetadata,
              isError |-> ~result.success]>>
  /\ UNCHANGED <<tool, planArg, checkOnly, cursor, cumulativeComponents, batchResults,
                 failedAtBatch, timedOut, result, retryCount, packageXmlResult,
                 retrievedMetadata, allMissingMetadata, elapsed, manifestDir, calls>>
  /\ UNCHANGED workspaceVars

\* validate_plan or validate_batch is called.
StepNext ==
  \/ ValidatePlanCall \/ StartBatch \/ Validate \/ Retry \/ FinishBatch \/ ValidatePlanReturn
  \/ ValidateBatchCall \/ BatchValidate \/ BatchRetry \/ BatchReturn

StepSpec == PlanInit /\ [][StepNext]_vars

\* validate_plan or validate_batch is inside the retry loop of a batch.
InRetryLoop == tool \in {"validate_plan", "validate_batch"} /\ planArg # undefined /\ opc = "retry"

TwoGaps == CliOutput("1", <<ErrorText(Xc, Y1, TRUE), ErrorText(<<>>, Y1, TRUE)>>)

GapInit ==
  /\ LET ws == Workspace({})
     IN  /\ readdir = ws.readdir
         /\ botDir = ws.botDir
         /\ defs = ws.defs
  /\ broken = NoneBroken
  /\ NoInvocation
  /\ pc = "idle"
  /\ selection = <<>>
  /\ build = NoBuild
  /\ tool = "validate_plan"
  /\ opc = "retry"
  /\ planArg \in {<<p>> : p \in LayeredPlans \ {PlanOf(<<>>)}}
  /\ checkOnly = FALSE
  /\ cursor = 1
  /\ cumulativeComponents = batchComponents(planArg[1].batches[1])
  /\ batchResults = <<>>
  /\ failedAtBatch = undefined
  /\ timedOut = FALSE
  /\ result = validateMetadata(TwoGaps)
  /\ retryCount = 0
  /\ packageXmlResult \in {[success |-> TRUE], [success |-> FALSE]}
  /\ retrievedMetadata = <<>>
  /\ allMissingMetadata = <<>>
  /\ elapsed \in TimePoints
  /\ manifestDir =
       IF packageXmlResult.success
       THEN [n \in {1} |-> generatePackageXml(cumulativeComponents, SfApiVersion)]
       ELSE EmptyDir
  /\ calls = WithAll(EmptyBag,
                     << Call("writePackageXml", 1, generatePackageXml(cumulativeComponents, SfApiVersion)),
                        Call("validateComponents", 1, generatePackageXml(cumulativeComponents, SfApiVersion)) >>)
  /\ response = undefined

GapSpec == GapInit /\ [][WalkNext]_vars

\* The recoverable gaps a failed validation names, in the order of its errors.
GapsOf(res) == SelectSeq(res.missingMetadata, LAMBDA m : m.type \in {"CustomObject", "CustomField"})

\* The gaps a cycle records: those whose retrieval came back with success.
RECURSIVE Recorded(_, _)
Recorded(gaps, came) ==
  IF gaps = <<>> THEN <<>>
  ELSE (IF Head(came) THEN <<[type |-> Head(gaps).type, name |-> Head(gaps).name]>> ELSE <<>>)
         \o Recorded(Tail(gaps), Tail(came))

\* A retry cycle is due: the validation failed on a recoverable gap and
\* fewer than 3 cycles have been made for the batch.
CycleDue ==
  /\ Walking("validate_plan")
  /\ opc = "retry"
  /\ ~result.success
  /\ GapsOf(result) # <<>>
  /\ retryCount < 3

AtBatch == tool \in {"validate_plan", "validate_batch"} /\ planArg # undefined /\ opc \in {"validate", "retry"}

\* The outcome of a batch as the tool at hand reports it: the last entry of
\* batchResults for validate_plan, the response for validate_batch.
Reported(name, results, answer) == IF name = "validate_plan" THEN results[Len(results)] ELSE answer[1]

\* C26: validate_batch, called for the batch at position i with the items of
\* the batches before it, and validate_plan at position i take the same
\* steps: both submit the components of the batches 1..i, both go through
\* a retry cycle (every gap retrieved, the same components submitted again)
\* exactly when the validation failed on a missing custom object or field
\* and fewer than 3 cycles were made, and both otherwise report the success
\* flag of the last validation and the number of components of the batches
\* 1..i, submitting nothing more.
C26_BatchStepsAsPlanSteps ==
  /\ [](AtBatch => cumulativeComponents = ComponentsUpTo(planArg[1], cursor))
  /\ [][AtBatch =>
         LET n == planArg[1].batches[cursor].batchNumber
             submitted == Call("validateComponents", n,
                               generatePackageXml(ComponentsUpTo(planArg[1], cursor), SfApiVersion))
             gaps == GapsOf(result)
         IN  CASE opc = "validate" ->
                    /\ calls' = WithAll(calls, <<submitted>>)
                    /\ retryCount' = 0
                    /\ opc' = "retry"
               [] opc = "retry" /\ ~result.success /\ gaps # <<>> /\ retryCount < 3 ->
                    /\ calls' = WithAll(calls,
                                        [i \in 1..Len(gaps) |-> Call("retrieveCustomMetadata", n, gaps[i])]
                                          \o <<submitted>>)
                    /\ retryCount' = retryCount + 1
                    /\ opc' = "retry"
                    /\ cursor' = cursor
               [] OTHER ->
                    /\ calls' = calls
                    /\ opc' # "retry"
                    /\ Reported(tool, batchResults', response').success = result.success
                    /\ Reported(tool, batchResults', response').componentsValidated
                         = Len(ComponentsUpTo(planArg[1], cursor))]_vars

\* validate_batch has returned for the second batch of a plan, after a retry
\* cycle, with success and the components of both batches counted.
C26_Witness ==
  /\ Returned("validate_batch")
  /\ cursor = 2
  /\ retryCount = 1
  /\ response[1].success
  /\ response[1].componentsValidated = Len(ComponentsUpTo(planArg[1], 2))
  /\ response[1].componentsValidated > Len(batchComponents(planArg[1].batches[2]))


\* Kahn's loop has emitted every item of the category: the fallback to the
\* original order is not taken.
FullySorted(type) ==
  Len(sortOneType_NoFallback(type, itemsByType[type], allReferences)) = Len(itemsByType[type])

\* C27: for a category whose same-category references have no cycle, the
\* fallback to the original order is not taken, however often a reference
\* was collected, and the emitted order is a topological order of the
\* references: no item is placed on both sides of the items it is linked to.
C27_FallbackOnlyOnCycle ==
  pc = "planned" =>
    \A type \in DOMAIN itemsByType :
      ~HasCycle(type) =>
        /\ FullySorted(type)
        /\ LET items == sortedByType[type]
               before(a, b) == IndexOf(items, Key(type, a)) < IndexOf(items, Key(type, b))
           IN  \/ \A e \in SameTypeEdges(type) : before(e[1], e[2])
               \/ \A e \in SameTypeEdges(type) : before(e[2], e[1])


\* C28: a plan of buildDeployPlan that has a batch passes validatePlan:
\* valid is true and there is no error, for every selection and workspace.
C28_BuiltPlanIsValid ==
  (pc = "planned" /\ Len(Batches) > 0) =>
    /\ validatePlan(plan).valid
    /\ validatePlan(plan).errors = <<>>

\* A plan of several batches built from two selected items, one of them a
\* dependency of the other, has passed.
C28_Witness ==
  /\ pc = "planned"
  /\ Len(selection) = 2
  /\ \E i, j \in 1..2 :
       /\ selection[i][1] = "GenAiPlugin"
       /\ selection[j][1] = "GenAiFunction"
       /\ Key("GenAiFunction", selection[j][2]) \in Range(build.depResults[i].dependencies)
            \/ selection[j][2] \in Range(build.depResults[i].genAiFunctions)
  /\ Len(Batches) >= 4
  /\ validatePlan(plan).valid


\* The sum of the item counts of the batches.
RECURSIVE BatchItemCount(_)
BatchItemCount(batches) ==
  IF batches = <<>> THEN 0 ELSE Len(Head(batches).items) + BatchItemCount(Tail(batches))

\* C29: totalItems of a built plan is the number of items placed in its
\* batches, and every selected item, whatever the category prefix of its
\* token, is in exactly one batch, once.
C29_TotalItemsCountsBatchItems ==
  pc = "planned" =>
    /\ plan.totalItems = BatchItemCount(Batches)
    /\ \A i \in 1..Len(selection) :
         Occurrences(PlanItemsSeq, parseSelection(selection)[i]) = 1


(***************************************************************************)
(* SalesforceCli.validateComponents and deployComponents, statement by     *)
(* statement.  The server handles a request while the handler of another   *)
(* is waiting at an await, so the calls of several tool invocations are    *)
(* interleaved at their awaits: mkdir, writeFile, the run of the command   *)
(* executor, and for a deployment unlink and rmdir.                        *)
(***************************************************************************)
serverVars == <<readdir, botDir, defs, broken, pc, selection, build, orchVars>>

\* Both methods write their manifest to a fixed name in the directory.
manifestPath(op) ==
  IF op = "validateComponents" THEN "validate-manifest.xml" ELSE "deploy-manifest.xml"

\* The component lists the tools call the methods with.
ComponentLists == {batchComponents(b) : b \in UNION {Range(p.batches) : p \in LayeredPlans}}

At(i, where) == inflight[i].at = where

Goto(i, where) == inflight' = [inflight EXCEPT ![i].at = where]

\* A tool calls one of the methods with its components.
Invoke(i) ==
  /\ At(i, "idle")
  /\ \E op \in {"validateComponents", "deployComponents"}, components \in ComponentLists :
       inflight' = [inflight EXCEPT ![i] = [op |-> op, components |-> components,
                                            at |-> "mkdir", executed |-> undefined]]
  /\ UNCHANGED <<tempDir, serverVars>>

\* fs.mkdir(tempDir, { recursive: true })
Mkdir(i) ==
  /\ At(i, "mkdir")
  /\ tempDir' = [tempDir EXCEPT !.exists = TRUE]
  /\ Goto(i, "writeFile")
  /\ UNCHANGED serverVars

\* getOrgApiVersion, generatePackageXml and fs.writeFile(manifestPath, ...),
\* which throws when the directory has been removed in the meantime.
WriteFile(i) ==
  /\ At(i, "writeFile")
  /\ IF tempDir.exists
     THEN /\ tempDir' = [tempDir EXCEPT !.files =
                           [f \in DOMAIN @ \cup {manifestPath(inflight[i].op)} |->
                              IF f = manifestPath(inflight[i].op)
                              THEN generatePackageXml(inflight[i].components, SfApiVersion)
                              ELSE @[f]]]
          /\ Goto(i, "execute")
     ELSE /\ tempDir' = tempDir
          /\ Goto(i, "threw")
  /\ UNCHANGED serverVars

\* validateMetadata(manifestPath) or deployMetadata(manifestPath, checkOnly):
\* the command executor reads the file that is at manifestPath now, or finds
\* none.  validateComponents returns; deployComponents goes on to clean up.
Execute(i) ==
  /\ At(i, "execute")
  /\ LET path == manifestPath(inflight[i].op)
         read == IF path \in DOMAIN tempDir.files THEN <<tempDir.files[path]>> ELSE undefined
     IN  inflight' = [inflight EXCEPT
                        ![i].executed = <<read>>,
                        ![i].at = IF inflight[i].op = "validateComponents" THEN "returned"
                                  ELSE "unlink"]
  /\ UNCHANGED <<tempDir, serverVars>>

\* finally: fs.unlink(manifestPath); when it throws, rmdir is skipped.
Unlink(i) ==
  /\ At(i, "unlink")
  /\ LET path == manifestPath(inflight[i].op)
     IN  IF path \in DOMAIN tempDir.files
         THEN /\ tempDir' = [tempDir EXCEPT !.files = [f \in DOMAIN @ \ {path} |-> @[f]]]
              /\ Goto(i, "rmdir")
         ELSE /\ tempDir' = tempDir
              /\ Goto(i, "returned")
  /\ UNCHANGED serverVars

\* fs.rmdir(tempDir): removes the directory when it is empty, throws
\* otherwise; the error is ignored.
Rmdir(i) ==
  /\ At(i, "rmdir")
  /\ tempDir' = IF DOMAIN tempDir.files = {} THEN NoTempDir ELSE tempDir
  /\ Goto(i, "returned")
  /\ UNCHANGED serverVars

TempNext ==
  \E i \in 1..MaxInFlight :
    Invoke(i) \/ Mkdir(i) \/ WriteFile(i) \/ Execute(i) \/ Unlink(i) \/ Rmdir(i)

TempSpec == PlanInit /\ [][TempNext]_vars

\* C30: calls in flight at the same time do not interfere: every call
\* gets as far as the command executor, and the executor runs against the
\* manifest built from the components of that call.
C30_OwnManifestExecuted ==
  \A i \in 1..MaxInFlight :
    /\ ~At(i, "threw")
    /\ inflight[i].executed # undefined =>
         inflight[i].executed = << <<generatePackageXml(inflight[i].components, SfApiVersion)>> >>

\* A call that is alone on the server from its start to its end runs the
\* executor against its own manifest.
C30_AloneOwnManifest ==
  \A i \in 1..MaxInFlight :
    (\A j \in 1..MaxInFlight \ {i} : At(j, "idle")) =>
      /\ ~At(i, "threw")
      /\ inflight[i].executed # undefined =>
           inflight[i].executed = << <<generatePackageXml(inflight[i].components, SfApiVersion)>> >>

====
